---- MODULE Spec2Model ----
(***************************************************************************)
(* The SMTP/IMAP self-test engine of selftest_server.py: one connection    *)
(* worker (SelfTestSMTPHandler.handle / SelfTestIMAPHandler.handle), the   *)
(* mode store it resolves its mode from, and the events and replies it     *)
(* produces.                                                               *)
(*                                                                         *)
(* Text (Python str and bytes) is a sequence of one-character strings.     *)
(* Two kinds of element stand for more than one byte: "NUL" is the byte    *)
(* \x00, and an element of B64Names is a whole base64 blob whose decoded   *)
(* text is given by B64Texts.  Python's None is the value None.            *)
(*                                                                         *)
(* out holds what the latest step of the worker appended to the event log  *)
(* and wrote to the socket: one element per _log_event call and per        *)
(* io.send call, in call order.  emitted and sent are its two projections. *)
(***************************************************************************)
EXTENDS Integers, Sequences, FiniteSets, TLC

VARIABLES
  now,                          \* int(time.time())
  store,                        \* the mode store file
  proto,                        \* "smtp" | "imap": which handler class serves the listener
  server_port,                  \* self.server.server_address[1]
  implicit_tls,                 \* self.server.implicit_tls
  client_ip,                    \* self.client_address[0]
  dec,                          \* the ModeDecision of the connection
  pc,                           \* where the worker is
  tls_active,
  pending_auth_login,
  pending_auth_login_username,
  in_data,
  data_bytes,
  mail_from_set,
  rcpt_count,
  line,                         \* the line the latest recv_line returned
  buf,                          \* io.buf: the lines received and not yet returned
  handshake,                    \* what wrap_socket did in the latest step
  out,                          \* _log_event and io.send calls of the latest step
  tmp,                          \* the file at path.with_suffix(path.suffix + ".tmp")
  procs,                        \* the processes that load and save the store side by side
  ret,                          \* what the latest step of one of them returned or raised
  log,                          \* the event log file, line by line
  emitter,                      \* where each worker is inside _log_event
  run,                          \* the guided run in the store file (guided_runs[run_id])
  reqs,                         \* the requests the threads of the web layer are handling
  peer,                         \* what the client does with its end of the connection
  reply                         \* the latest response of the web layer

vars ==
  <<now, store, proto, server_port, implicit_tls, client_ip, dec, pc, tls_active,
    pending_auth_login, pending_auth_login_username, in_data, data_bytes,
    mail_from_set, rcpt_count, line, buf, handshake, out, tmp, procs, ret,
    log, emitter, run, reqs, peer, reply>>

\* the log file, the guided run and the requests and responses of the web layer
OtherVars == <<log, emitter, run, reqs, peer, reply>>

\* ------------------------------------------------------------------ bounds

MaxNow == 2
MaxRcpt == 1
MaxDataBytes == 10
MaxTime == 3
MaxBusy == 2
MaxAhead == 120

\* ------------------------------------------------------------------ text

None == <<"None">>

NUL == "NUL"

Whitespace == {" ", "\t", "\n", "\r"}

LowerAlpha ==
  <<"a","b","c","d","e","f","g","h","i","j","k","l","m",
    "n","o","p","q","r","s","t","u","v","w","x","y","z">>

UpperAlpha ==
  <<"A","B","C","D","E","F","G","H","I","J","K","L","M",
    "N","O","P","Q","R","S","T","U","V","W","X","Y","Z">>

Digits == {"0","1","2","3","4","5","6","7","8","9"}

Alnum == {LowerAlpha[i] : i \in 1..Len(LowerAlpha)} \cup {UpperAlpha[i] : i \in 1..Len(UpperAlpha)} \cup Digits

UpperMap ==
  [c \in {LowerAlpha[i] : i \in 1..Len(LowerAlpha)} |->
     UpperAlpha[CHOOSE i \in 1..Len(LowerAlpha) : LowerAlpha[i] = c]]

UpperChar(c) == IF c \in DOMAIN UpperMap THEN UpperMap[c] ELSE c

Upper(s) == [i \in 1..Len(s) |-> UpperChar(s[i])]

StartsWith(s, p) == Len(s) >= Len(p) /\ SubSeq(s, 1, Len(p)) = p

RECURSIVE LStrip(_)
LStrip(s) ==
  IF Len(s) > 0 /\ s[1] \in Whitespace THEN LStrip(Tail(s)) ELSE s

RECURSIVE RStrip(_)
RStrip(s) ==
  IF Len(s) > 0 /\ s[Len(s)] \in Whitespace THEN RStrip(SubSeq(s, 1, Len(s) - 1)) ELSE s

Strip(s) == LStrip(RStrip(s))

RECURSIVE TakeWord(_)
TakeWord(s) ==
  IF Len(s) = 0 \/ s[1] \in Whitespace THEN <<>> ELSE <<s[1]>> \o TakeWord(Tail(s))

RECURSIVE Split(_)
Split(s) ==
  LET t == LStrip(s)
      w == TakeWord(t)
  IN  IF Len(t) = 0 THEN <<>> ELSE <<w>> \o Split(SubSeq(t, Len(w) + 1, Len(t)))

SplitMax1(s) ==
  LET t == LStrip(s)
      w == TakeWord(t)
      r == LStrip(SubSeq(t, Len(w) + 1, Len(t)))
  IN  IF Len(t) = 0 THEN <<>> ELSE IF Len(r) = 0 THEN <<w>> ELSE <<w, r>>

RECURSIVE SplitOn(_, _)
SplitOn(s, sep) ==
  IF \E i \in 1..Len(s) : s[i] = sep
    THEN LET i == CHOOSE k \in 1..Len(s) : s[k] = sep /\ \A j \in 1..(k - 1) : s[j] # sep
         IN  <<SubSeq(s, 1, i - 1)>> \o SplitOn(SubSeq(s, i + 1, Len(s)), sep)
    ELSE <<s>>

Truthy(x) == x # None /\ Len(x) > 0

\* ------------------------------------------------------------------ base64

U_A == <<"t","e","s","t","-","a","b","c","1","2","3">>
U_B == <<"t","e","s","t","-","x","y","z","7","8","9","@","d">>
U_C == <<"b","o","b">>
S_A == <<"a","b","c","1","2","3">>
S_B == <<"x","y","z","7","8","9">>
P_1 == <<"p","w","1">>
P_2 == <<"s","3","c","r","t">>

Usernames == {U_A, U_B, U_C}
Passwords == {P_1, P_2}

\* the limits and the prefix of _SESSION_RE
SessionMinLen == 6
SessionMaxLen == 64

TestPrefix == <<"t","e","s","t","-">>

\* n letters and digits
LongCode(n) == [i \in 1..n |-> IF i % 2 = 0 THEN "7" ELSE "Z"]

\* usernames at and around the limits of _SESSION_RE
U_Short == TestPrefix \o LongCode(SessionMinLen - 1)
U_Min == TestPrefix \o LongCode(SessionMinLen)
U_Max == TestPrefix \o LongCode(SessionMaxLen)
U_Long == TestPrefix \o LongCode(SessionMaxLen + 1)
U_Symbol == <<"t","e","s","t","-","a","b","c","_","1","2","3">>
U_NoPrefix == <<"a","b","c","1","2","3","4","5","6">>
U_Case == <<"T","e","s","t","-","a","b","c","1","2","3">>
U_AtEnd == U_A \o <<"@">>
U_Newline == U_A \o <<"\n","@","d">>
U_Padded == <<" ">> \o U_A

EdgeUsernames ==
  {U_Short, U_Min, U_Max, U_Long, U_Symbol, U_NoPrefix, U_Case, U_AtEnd, U_Newline, U_Padded}

PlainMessage(u, p) == <<NUL>> \o u \o <<NUL>> \o p

\* the credentials the clients of the model use
Credentials == {<<U_A, P_1>>, <<U_A, P_2>>, <<U_B, P_1>>, <<U_C, P_2>>}

\* the texts whose base64 encodings occur, and the blob that stands for each encoding
B64Texts ==
  <<U_A, U_B, U_C, P_1, P_2,
    PlainMessage(U_A, P_1), PlainMessage(U_A, P_2),
    PlainMessage(U_B, P_1), PlainMessage(U_B, P_2),
    PlainMessage(U_C, P_1), PlainMessage(U_C, P_2),
    U_A \o <<NUL>> \o P_1,
    U_Short, U_Min, U_Max, U_Long, U_Symbol, U_NoPrefix, U_Case, U_AtEnd, U_Newline, U_Padded,
    PlainMessage(U_Short, P_1), PlainMessage(U_Min, P_1), PlainMessage(U_Max, P_1),
    PlainMessage(U_Long, P_1), PlainMessage(U_Symbol, P_1), PlainMessage(U_NoPrefix, P_1),
    PlainMessage(U_Case, P_1), PlainMessage(U_AtEnd, P_1), PlainMessage(U_Newline, P_1),
    PlainMessage(U_Padded, P_1)>>

B64Names ==
  <<"b64:01", "b64:02", "b64:03", "b64:04", "b64:05", "b64:06",
    "b64:07", "b64:08", "b64:09", "b64:10", "b64:11", "b64:12",
    "b64:13", "b64:14", "b64:15", "b64:16", "b64:17", "b64:18", "b64:19", "b64:20",
    "b64:21", "b64:22", "b64:23", "b64:24", "b64:25", "b64:26", "b64:27", "b64:28",
    "b64:29", "b64:30", "b64:31", "b64:32">>

B64Alphabet == Alnum \cup {"+", "/"}

IsB64Name(c) == \E i \in 1..Len(B64Names) : B64Names[i] = c

B64Encode(text) == <<B64Names[CHOOSE i \in 1..Len(B64Texts) : B64Texts[i] = text]>>

B64TextOf(c) == B64Texts[CHOOSE i \in 1..Len(B64Names) : B64Names[i] = c]

Junk == "\\uFFFD"

RECURSIVE CountB64Chars(_)
CountB64Chars(s) ==
  IF Len(s) = 0 THEN 0
  ELSE (IF s[1] \in B64Alphabet THEN 1 ELSE 0) + CountB64Chars(Tail(s))

b64decode_to_text(b64) ==
  IF Len(b64) = 1 /\ IsB64Name(b64[1]) THEN B64TextOf(b64[1])
  ELSE LET n == CountB64Chars(b64)
       IN  IF n % 4 = 0 THEN [i \in 1..((n \div 4) * 3) |-> Junk] ELSE None

ByteLenOf(c) == IF IsB64Name(c) THEN 4 * ((Len(B64TextOf(c)) + 2) \div 3) ELSE 1

RECURSIVE ByteLen(_)
ByteLen(s) == IF Len(s) = 0 THEN 0 ELSE ByteLenOf(s[1]) + ByteLen(Tail(s))

\* ------------------------------------------------------------------ usernames

extract_session_from_username(username) ==
  LET u0 == Strip(username)
      u1 == IF \E i \in 1..Len(u0) : u0[i] = "@" THEN SplitOn(u0, "@")[1] ELSE u0
      u  == IF Len(u1) > 0 /\ u1[Len(u1)] = "\n" THEN SubSeq(u1, 1, Len(u1) - 1) ELSE u1
      code == SubSeq(u, Len(TestPrefix) + 1, Len(u))
  IN  IF /\ StartsWith(u, TestPrefix)
         /\ Len(code) >= SessionMinLen
         /\ Len(code) <= SessionMaxLen
         /\ \A i \in 1..Len(code) : code[i] \in Alnum
        THEN code
        ELSE None

strip_quotes(s0) ==
  LET s == Strip(s0)
  IN  IF /\ Len(s) >= 2
         /\ \/ (s[1] = "\"" /\ s[Len(s)] = "\"")
            \/ (s[1] = "'" /\ s[Len(s)] = "'")
        THEN SubSeq(s, 2, Len(s) - 1)
        ELSE s

\* a faulty variant: takes the last field of the message (passwd) for the username
AuthPlainLastField(initial_response_b64) ==
  LET decoded == b64decode_to_text(initial_response_b64)
      parts == SplitOn(decoded, NUL)
  IN  IF decoded = None THEN None
      ELSE IF Len(parts) >= 2 THEN parts[Len(parts)]
      ELSE None

smtp_username_from_auth_plain(initial_response_b64) ==
  LET decoded == b64decode_to_text(initial_response_b64)
      parts == SplitOn(decoded, NUL)
  IN  IF decoded = None THEN None
      ELSE IF Len(parts) >= 3 THEN parts[2]
      ELSE IF Len(parts) = 2 THEN parts[1]
      ELSE None

\* ------------------------------------------------------------------ mode store

Modes == {"baseline", "t1", "t2", "t3", "t4"}

IP_1 == "198.51.100.7"
IP_2 == "203.0.113.9"

Get(o, k, d) == IF k \in DOMAIN o THEN o[k] ELSE d

MissingStore == [kind |-> "missing", data |-> [overrides |-> <<>>]]

JsonStore(data) == [kind |-> "json", data |-> data]

load_mode_store(s) ==
  IF s.kind = "missing"
    THEN [default_mode |-> "baseline", overrides |-> <<>>]
    ELSE s.data

save_mode_store(s, data) == JsonStore(data)

Expired(o, t) ==
  LET exp == Get(o, "expires", 0)
  IN  exp # 0 /\ exp < t

\* a faulty variant: the last matching override is chosen, not the first
DecideModeLastMatch(s, ip, t) ==
  LET data == load_mode_store(s)
      original == Get(data, "overrides", <<>>)
      overrides == SelectSeq(original, LAMBDA o : ~Expired(o, t))
      matching == SelectSeq(overrides, LAMBDA o : Get(o, "ip", "") = ip)
      chosen ==
        [mode |-> Get(matching[Len(matching)], "mode", "baseline"),
         source |-> <<"override", ip>>,
         session |-> Get(matching[Len(matching)], "session", None)]
      fallback ==
        [mode |-> Get(data, "default_mode", "baseline"),
         source |-> <<"default">>,
         session |-> None]
  IN  [decision |-> IF Len(matching) > 0 THEN chosen ELSE fallback,
       store |-> IF overrides # original
                   THEN save_mode_store(s, [data EXCEPT !.overrides = overrides])
                   ELSE s]

\* a faulty variant: the store is written back after every resolution
DecideModeAlwaysSaves(s, ip, t) ==
  LET data == load_mode_store(s)
      original == Get(data, "overrides", <<>>)
      overrides == SelectSeq(original, LAMBDA o : ~Expired(o, t))
      matching == SelectSeq(overrides, LAMBDA o : Get(o, "ip", "") = ip)
      chosen ==
        [mode |-> Get(matching[1], "mode", "baseline"),
         source |-> <<"override", ip>>,
         session |-> Get(matching[1], "session", None)]
      fallback ==
        [mode |-> Get(data, "default_mode", "baseline"),
         source |-> <<"default">>,
         session |-> None]
  IN  [decision |-> IF Len(matching) > 0 THEN chosen ELSE fallback,
       store |-> save_mode_store(s, [overrides |-> overrides] @@ data)]

decide_mode(s, ip, t) ==
  LET data == load_mode_store(s)
      original == Get(data, "overrides", <<>>)
      overrides == SelectSeq(original, LAMBDA o : ~Expired(o, t))
      matching == SelectSeq(overrides, LAMBDA o : Get(o, "ip", "") = ip)
      chosen ==
        [mode |-> Get(matching[1], "mode", "baseline"),
         source |-> <<"override", ip>>,
         session |-> Get(matching[1], "session", None)]
      fallback ==
        [mode |-> Get(data, "default_mode", "baseline"),
         source |-> <<"default">>,
         session |-> None]
  IN  [decision |-> IF Len(matching) > 0 THEN chosen ELSE fallback,
       store |-> IF overrides # original
                   THEN save_mode_store(s, [data EXCEPT !.overrides = overrides])
                   ELSE s]

\* ------------------------------------------------------------------ the store file

\* data[k] = v on a dict
Put(d, k, v) == (k :> v) @@ d

\* a store file that holds text which is not JSON
Unparseable == [kind |-> "unparseable", data |-> [overrides |-> <<>>]]

\* a file just created or truncated by open("w"), before the buffered text is flushed
EmptyFile == [kind |-> "empty", data |-> [overrides |-> <<>>]]

\* a file that holds bytes of two writes through two file objects
MixedFile == [kind |-> "mixed", data |-> [overrides |-> <<>>]]

\* json.load(f) returns, which takes a file that exists and holds one whole JSON text
Loads(s) == s.kind \in {"missing", "json"}

\* webui._load_store
load_store(s) ==
  IF s.kind = "missing"
    THEN [default_mode |-> "baseline", overrides |-> <<>>, guided_runs |-> <<>>]
    ELSE s.data

\* webui._prune_overrides
prune_overrides(data, t) ==
  Put(data, "overrides",
      SelectSeq(Get(data, "overrides", <<>>),
                LAMBDA o : Get(o, "expires", 0) # 0 /\ Get(o, "expires", 0) >= t))

\* a faulty variant: the new override is left out
SetModeNoAppend(data, ip, mode, ttl, t) ==
  LET overrides == SelectSeq(Get(data, "overrides", <<>>),
                             LAMBDA o : Get(o, "expires", 0) >= t)
  IN  IF ip # ""
        THEN Put(data, "overrides", SelectSeq(overrides, LAMBDA o : Get(o, "ip", "") # ip))
        ELSE Put(Put(data, "default_mode", mode), "overrides", overrides)

\* set_mode.main between _load and _save; data = _load(path), ip = "" when --ip is omitted
set_mode_main(data, ip, mode, ttl, t) ==
  LET overrides == SelectSeq(Get(data, "overrides", <<>>),
                             LAMBDA o : Get(o, "expires", 0) >= t)
  IN  IF ip # ""
        THEN Put(data, "overrides",
                 SelectSeq(overrides, LAMBDA o : Get(o, "ip", "") # ip)
                 \o <<[ip |-> ip, mode |-> mode, expires |-> t + ttl]>>)
        ELSE Put(Put(data, "default_mode", mode), "overrides", overrides)

\* webui /start between _load_store and _save_store
web_start(data0, ip, mode, ttl, session, scenario, t) ==
  LET data == prune_overrides(data0, t)
      expires == t + ttl
      overrides == SelectSeq(Get(data, "overrides", <<>>), LAMBDA o : Get(o, "ip", "") # ip)
  IN  Put(data, "overrides",
          overrides \o <<[ip |-> ip, mode |-> mode, expires |-> expires,
                          session |-> session, scenario |-> scenario]>>)

\* the most /api/extend leaves on an override, and the ttl of a guided step, in seconds
ExtendCap == 3600
GuidedTtl == 900

Max(a, b) == IF a >= b THEN a ELSE b

Min(a, b) == IF a <= b THEN a ELSE b

\* a faulty variant: the overrides of the identity stay in the list
GuidedSetOverrideKeepsOld(data, ip, mode, scenario, session, ttl, t) ==
  Put(data, "overrides",
      Get(data, "overrides", <<>>)
      \o <<[ip |-> ip, mode |-> mode, expires |-> t + ttl,
            session |-> session, scenario |-> scenario]>>)

\* webui._guided_set_override: the data it leaves
guided_set_override(data, ip, mode, scenario, session, ttl, t) ==
  LET expires == t + ttl
      overrides == SelectSeq(Get(data, "overrides", <<>>), LAMBDA o : Get(o, "ip", "") # ip)
  IN  Put(data, "overrides",
          overrides \o <<[ip |-> ip, mode |-> mode, expires |-> expires,
                          session |-> session, scenario |-> scenario]>>)

\* webui /api/guided/run/start between _load_store and _save_store; step0 is the first step
guided_run_start(data0, ip, run_id, step0, session0, t) ==
  LET data == prune_overrides(data0, t)
      runs == Get(data, "guided_runs", <<>>)
      set == guided_set_override(data, ip, step0.mode, step0.scenario, session0, GuidedTtl, t)
  IN  Put(set, "guided_runs",
          Put(runs, run_id, [run_id |-> run_id, ip |-> ip, status |-> "running",
                             step_index |-> 0]))

\* webui /api/extend between _load_store and _save_store
api_extend(data0, ip, mode, session, add, t) ==
  LET data == prune_overrides(data0, t)
      all == Get(data, "overrides", <<>>)
      mine == SelectSeq(all, LAMBDA o : Get(o, "ip", "") = ip)
      overrides == SelectSeq(all, LAMBDA o : Get(o, "ip", "") # ip)
      cur == IF Len(mine) > 0 THEN mine[Len(mine)] ELSE [k \in {} |-> None]
      flagged == SelectSeq(mine, LAMBDA o : "activated" \in DOMAIN o)
      cur_expires == Get(cur, "expires", 0)
      cur_session == Get(cur, "session", None)
      cur_scenario == Get(cur, "scenario", "")
      base == Max(cur_expires, t)
      new_expires == Min(base + add, t + ExtendCap)
      entry == [ip |-> ip, mode |-> mode, expires |-> new_expires,
                session |-> IF Truthy(cur_session) THEN cur_session ELSE session]
      with_scenario == IF cur_scenario # "" THEN Put(entry, "scenario", cur_scenario) ELSE entry
      with_activated == IF Len(flagged) > 0
                          THEN Put(with_scenario, "activated", flagged[Len(flagged)].activated)
                          ELSE with_scenario
  IN  Put(data, "overrides", overrides \o <<with_activated>>)

\* the bytes of a file after data is written from offset 0 through a file object opened "w":
\* the whole text on an empty file; on a file that another file object has written since
\* the open, the text alone or the text followed by the tail of the longer older one
Written(cur, data) ==
  IF cur.kind = "empty" \/ cur = JsonStore(data)
    THEN {JsonStore(data)}
    ELSE {JsonStore(data), MixedFile}

\* a faulty variant: knows the SMTPS port only
ShouldBlockSmtpsOnly(mode, port) ==
  IF mode \notin {"t1", "t2", "t3", "t4"} THEN FALSE ELSE port \in {465}

\* A faulty block test: t4 connections on the implicit-TLS ports are let in.
ShouldBlockBelowT4(mode, port) ==
  IF mode \notin {"t1", "t2", "t3"} THEN FALSE ELSE port \in {465, 993}

should_block_implicit_tls(mode, port) ==
  IF mode \notin {"t1", "t2", "t3", "t4"} THEN FALSE ELSE port \in {465, 993}

\* ------------------------------------------------------------------ listeners (main)

smtp_ports == {465, 587}
imap_ports == {143, 993}
smtps_implicit == {465}
imaps_implicit == {993}

Listeners ==
  {[proto |-> "smtp", port |-> p, implicit_tls |-> (p \in smtps_implicit)] : p \in smtp_ports}
  \cup
  {[proto |-> "imap", port |-> p, implicit_tls |-> (p \in imaps_implicit)] : p \in imap_ports}

\* ------------------------------------------------------------------ events and replies

EvCommonOf(d, tls, kind) ==
  [ts |-> now, proto |-> proto, client_ip |-> client_ip, mode |-> d.mode,
   mode_source |-> d.source, override_session |-> d.session, session |-> None,
   tls |-> tls, server_port |-> server_port, event |-> kind]

EvCommon(tls, kind) == EvCommonOf(dec, tls, kind)

EvShort(tls, kind) ==
  [ts |-> now, proto |-> proto, client_ip |-> client_ip, mode |-> dec.mode,
   mode_source |-> dec.source, tls |-> tls, server_port |-> server_port, event |-> kind]

EvDataEnd(tls, bytes) ==
  [ts |-> now, proto |-> proto, client_ip |-> client_ip, mode |-> dec.mode,
   mode_source |-> dec.source, tls |-> tls, event |-> "data_end", bytes |-> bytes]

EvSessionMismatch(tls, username, username_session) ==
  EvShort(tls, "session_mismatch")
    @@ [override_session |-> dec.session, session |-> None,
        username |-> username, username_session |-> username_session]

IsEvent(x) == "event" \in DOMAIN x

IsSend(x) == "text" \in DOMAIN x

\* the events logged and the replies written by the latest step, each in call order
emitted == SelectSeq(out, IsEvent)

sent == SelectSeq(out, IsSend)

Reply(text) == [tag |-> <<>>, text |-> <<text>>]

Tagged(tag, text) == [tag |-> tag, text |-> <<text>>]

Untagged(text) == [tag |-> <<"*">>, text |-> <<text>>]

\* recv_line returns l: the first line of io.buf, or of what the socket delivers when io.buf
\* holds no line
Arrives(l) == IF buf = <<>> THEN TRUE ELSE l = Head(buf)

\* io.buf after recv_line has returned
Rest == IF buf = <<>> THEN <<>> ELSE Tail(buf)

\* The locals of handle() as the latest step leaves them, when the step changes nothing
\* but io.buf, from which it has read its line.
Keep ==
  [buf |-> Rest,
   tls_active |-> tls_active,
   pending_auth_login |-> pending_auth_login,
   pending_auth_login_username |-> pending_auth_login_username,
   in_data |-> in_data,
   data_bytes |-> data_bytes,
   mail_from_set |-> mail_from_set,
   rcpt_count |-> rcpt_count,
   pc |-> "loop",
   handshake |-> "none",
   out |-> <<>>]

\* ------------------------------------------------------------------ SMTP handler

QUIT == <<"Q","U","I","T">>
RSET == <<"R","S","E","T">>
NOOP == <<"N","O","O","P">>
EHLO == <<"E","H","L","O">>
HELO == <<"H","E","L","O">>
STARTTLS == <<"S","T","A","R","T","T","L","S">>
MAIL_FROM == <<"M","A","I","L"," ","F","R","O","M",":">>
RCPT_TO == <<"R","C","P","T"," ","T","O",":">>
DATA == <<"D","A","T","A">>
AUTH == <<"A","U","T","H">>
PLAIN == <<"P","L","A","I","N">>
LOGIN == <<"L","O","G","I","N">>

SmtpReady == Reply("220 2.0.0 Ready to start TLS")
SmtpTlsNotAvailable == Reply("454 TLS not available due to temporary reason")
SmtpAuthOk == Reply("235 2.7.0 Authentication successful")
SmtpBadSequence == Reply("503 5.5.1 Bad sequence of commands")
Injected == Reply("NOOP")

\* A faulty handler: a read that returns None is taken for an empty line.
SmtpOnNoneContinues ==
  [Keep EXCEPT !.out = <<EvCommon(tls_active, "disconnect")>>]

\* recv_line returned None: timeout or EOF
SmtpOnNone ==
  [Keep EXCEPT !.out = <<EvCommon(tls_active, "disconnect")>>,
               !.pc = "done"]

SmtpOnDataEnd ==
  [Keep EXCEPT !.in_data = FALSE,
               !.out = <<EvDataEnd(tls_active, data_bytes), Reply("250 2.0.0 OK")>>,
               !.data_bytes = 0]

SmtpOnDataLine(l) ==
  [Keep EXCEPT !.data_bytes = data_bytes + ByteLen(l) + 2]

\* A faulty AUTH LOGIN: a username line that does not decode leaves the username unset.
SmtpOnAuthLoginUsernameUnset(l) ==
  LET txt == b64decode_to_text(Strip(l))
  IN  [Keep EXCEPT !.pending_auth_login_username = txt,
                   !.out = <<Reply("334 UGFzc3dvcmQ6")>>]

SmtpOnAuthLoginUsername(l) ==
  LET txt == b64decode_to_text(Strip(l))
  IN  [Keep EXCEPT !.pending_auth_login_username = IF Truthy(txt) THEN txt ELSE <<>>,
                   !.out = <<Reply("334 UGFzc3dvcmQ6")>>]

\* a faulty variant: logs session_mismatch after the event of the attempt
AuthEventsMismatchLast(kind, extra, username) ==
  LET username_session == IF Truthy(username) THEN extract_session_from_username(username) ELSE None
      mismatch == Truthy(dec.session) /\ Truthy(username_session) /\ dec.session # username_session
  IN  <<EvShort(tls_active, kind) @@ extra
          @@ [username |-> username, session |-> username_session,
              username_session |-> username_session]>>
      \o (IF mismatch THEN <<EvSessionMismatch(tls_active, username, username_session)>> ELSE <<>>)

\* the events of one authentication attempt: session_mismatch (if any), then kind
AuthEvents(kind, extra, username) ==
  LET username_session == IF Truthy(username) THEN extract_session_from_username(username) ELSE None
      session == username_session
      mismatch == Truthy(dec.session) /\ Truthy(username_session) /\ dec.session # username_session
  IN  (IF mismatch THEN <<EvSessionMismatch(tls_active, username, username_session)>> ELSE <<>>)
      \o <<EvShort(tls_active, kind) @@ extra
             @@ [username |-> username, session |-> session,
                 username_session |-> username_session]>>

SmtpOnAuthLoginPassword(l) ==
  LET txt == b64decode_to_text(Strip(l))
      username == pending_auth_login_username
      drop == dec.mode \in {"t4"} /\ tls_active
  IN  IF drop
        THEN [Keep EXCEPT !.out = AuthEvents("auth_login", <<>>, username)
                                    \o <<SmtpAuthOk,
                                          EvShort(tls_active, "drop") @@ [reason |-> "after_auth"]>>,
                          !.pc = "done"]
        ELSE [Keep EXCEPT !.out = AuthEvents("auth_login", <<>>, username) \o <<SmtpAuthOk>>,
                          !.pending_auth_login = FALSE,
                          !.pending_auth_login_username = None]

SmtpOnQuit ==
  [Keep EXCEPT !.out = <<Reply("221 2.0.0 Bye")>>, !.pc = "done"]

SmtpOnRset ==
  [Keep EXCEPT !.mail_from_set = FALSE, !.rcpt_count = 0, !.in_data = FALSE,
               !.data_bytes = 0, !.out = <<Reply("250 2.0.0 OK")>>]

SmtpOnNoop ==
  [Keep EXCEPT !.out = <<Reply("250 2.0.0 OK")>>]

\* a faulty variant: advertises STARTTLS whatever the mode is
SmtpOnEhloAnyMode ==
  LET starttls_advertised == ~tls_active
      caps == <<"250-selftest", "250-PIPELINING", "250-SIZE 35882577", "250-AUTH PLAIN LOGIN">>
              \o (IF starttls_advertised THEN <<"250-STARTTLS">> ELSE <<>>)
              \o <<"250 HELP">>
  IN  [Keep EXCEPT !.out = <<EvCommon(tls_active, "ehlo")
                               @@ [starttls_advertised |-> starttls_advertised],
                             [tag |-> <<>>, text |-> caps]>>]

SmtpOnEhlo ==
  LET starttls_advertised == (~tls_active) /\ (dec.mode \notin {"t1"})
      caps == <<"250-selftest", "250-PIPELINING", "250-SIZE 35882577", "250-AUTH PLAIN LOGIN">>
              \o (IF starttls_advertised THEN <<"250-STARTTLS">> ELSE <<>>)
              \o <<"250 HELP">>
  IN  [Keep EXCEPT !.out = <<EvCommon(tls_active, "ehlo")
                               @@ [starttls_advertised |-> starttls_advertised],
                             [tag |-> <<>>, text |-> caps]>>]

\* a faulty variant: mode t2 is not told apart from baseline
SmtpOnStartTlsNoT2 ==
  IF tls_active
    THEN [Keep EXCEPT !.out = <<EvCommon(tls_active, "starttls") @@ [result |-> "already_tls"],
                                SmtpTlsNotAvailable>>]
  ELSE IF dec.mode \in {"t3"}
    THEN [Keep EXCEPT !.out = <<EvCommon(tls_active, "starttls") @@ [result |-> "refused"],
                                SmtpTlsNotAvailable>>]
  ELSE [Keep EXCEPT !.out = <<SmtpReady,
                              EvCommon(tls_active, "starttls") @@ [result |-> "ok"]>>,
                    !.pc = "handshake"]

\* A faulty STARTTLS: the command is served again on a connection that has TLS.
SmtpOnStartTlsAgain ==
  IF dec.mode \in {"t3"}
    THEN [Keep EXCEPT !.out = <<EvCommon(tls_active, "starttls") @@ [result |-> "refused"],
                                SmtpTlsNotAvailable>>]
  ELSE IF dec.mode \in {"t2"}
    THEN [Keep EXCEPT !.out = <<SmtpReady,
                                EvCommon(tls_active, "starttls") @@ [result |-> "drop_after_ready"],
                                EvCommon(tls_active, "disconnect")>>,
                      !.pc = "done"]
  ELSE [Keep EXCEPT !.out = <<SmtpReady,
                              EvCommon(tls_active, "starttls") @@ [result |-> "ok"]>>,
                    !.pc = "handshake"]

SmtpOnStartTls ==
  IF tls_active
    THEN [Keep EXCEPT !.out = <<EvCommon(tls_active, "starttls") @@ [result |-> "already_tls"],
                                SmtpTlsNotAvailable>>]
  ELSE IF dec.mode \in {"t3"}
    THEN [Keep EXCEPT !.out = <<EvCommon(tls_active, "starttls") @@ [result |-> "refused"],
                                SmtpTlsNotAvailable>>]
  ELSE IF dec.mode \in {"t2"}
    THEN [Keep EXCEPT !.out = <<SmtpReady,
                                EvCommon(tls_active, "starttls") @@ [result |-> "drop_after_ready"],
                                EvCommon(tls_active, "disconnect")>>,
                      !.pc = "done"]
  ELSE [Keep EXCEPT !.out = <<SmtpReady,
                              EvCommon(tls_active, "starttls") @@ [result |-> "ok"]>>,
                    !.pc = "handshake"]

SmtpOnMailFrom ==
  [Keep EXCEPT !.mail_from_set = TRUE, !.rcpt_count = 0,
               !.out = <<Reply("250 2.1.0 OK")>>]

SmtpOnRcptTo ==
  IF ~mail_from_set
    THEN [Keep EXCEPT !.out = <<SmtpBadSequence>>]
    ELSE [Keep EXCEPT !.rcpt_count = rcpt_count + 1,
                      !.out = <<Reply("250 2.1.5 OK")>>]

\* A faulty DATA: DATA state is entered without a look at sender and recipients.
SmtpOnDataUnchecked ==
  [Keep EXCEPT !.in_data = TRUE, !.data_bytes = 0,
               !.out = <<Reply("354 End data with <CR><LF>.<CR><LF>")>>]

\* A faulty DATA: the recipient count is not looked at.
SmtpOnDataNoRcptCheck ==
  IF ~mail_from_set
    THEN [Keep EXCEPT !.out = <<SmtpBadSequence>>]
    ELSE [Keep EXCEPT !.in_data = TRUE, !.data_bytes = 0,
                      !.out = <<Reply("354 End data with <CR><LF>.<CR><LF>")>>]

SmtpOnData ==
  IF ~mail_from_set \/ rcpt_count <= 0
    THEN [Keep EXCEPT !.out = <<SmtpBadSequence>>]
    ELSE [Keep EXCEPT !.in_data = TRUE, !.data_bytes = 0,
                      !.out = <<Reply("354 End data with <CR><LF>.<CR><LF>")>>]

\* a faulty variant: an attempt without a username is refused
SmtpAuthFinishRefusing(mech_u, username) ==
  [Keep EXCEPT !.out = AuthEvents("auth_command",
                                  [auth_mech |-> IF Len(mech_u) > 0 THEN mech_u ELSE None],
                                  username)
                         \o <<IF Truthy(username)
                                THEN Reply("235 2.7.0 Authentication successful")
                                ELSE Reply("535 5.7.8 Authentication credentials invalid")>>]

\* the tail of the AUTH branch: events and the success reply
SmtpAuthFinish(mech_u, username) ==
  [Keep EXCEPT !.out = AuthEvents("auth_command",
                                  [auth_mech |-> IF Len(mech_u) > 0 THEN mech_u ELSE None],
                                  username)
                         \o <<SmtpAuthOk>>]

SmtpOnAuth(l) ==
  LET parts == Split(l)
      mech == IF Len(parts) >= 2 THEN parts[2] ELSE <<>>
      mech_u == Upper(mech)
  IN  IF mech_u = PLAIN
        THEN IF Len(parts) >= 3
               THEN SmtpAuthFinish(mech_u, smtp_username_from_auth_plain(parts[3]))
               ELSE [Keep EXCEPT !.out = <<Reply("334 ")>>, !.pc = "auth_plain"]
      ELSE IF mech_u = LOGIN
        THEN [Keep EXCEPT !.pending_auth_login = TRUE,
                          !.pending_auth_login_username = None,
                          !.out = <<Reply("334 VXNlcm5hbWU6")>>]
      ELSE SmtpAuthFinish(mech_u, None)

\* resp = io.recv_line() inside the AUTH PLAIN branch
\* A faulty AUTH PLAIN: a blob that does not decode ends the connection.
SmtpOnAuthPlainResponseStrict(resp) ==
  IF resp = None \/ b64decode_to_text(Strip(resp)) = None
    THEN [Keep EXCEPT !.pc = "done"]
    ELSE SmtpAuthFinish(PLAIN, smtp_username_from_auth_plain(Strip(resp)))

SmtpOnAuthPlainResponse(resp) ==
  IF resp = None
    THEN [Keep EXCEPT !.pc = "done"]
    ELSE SmtpAuthFinish(PLAIN, smtp_username_from_auth_plain(Strip(resp)))

SmtpOnOther ==
  [Keep EXCEPT !.out = <<Reply("250 OK")>>]

\* the if-chain on u = line.upper() of SelfTestSMTPHandler.handle
SmtpCommand(l) ==
  LET u == Upper(l)
  IN  IF StartsWith(u, QUIT) THEN "quit"
      ELSE IF StartsWith(u, RSET) THEN "rset"
      ELSE IF StartsWith(u, NOOP) THEN "noop"
      ELSE IF StartsWith(u, EHLO) \/ StartsWith(u, HELO) THEN "ehlo"
      ELSE IF StartsWith(u, STARTTLS) THEN "starttls"
      ELSE IF StartsWith(u, MAIL_FROM) THEN "mail_from"
      ELSE IF StartsWith(u, RCPT_TO) THEN "rcpt_to"
      ELSE IF StartsWith(u, DATA) THEN "data"
      ELSE IF StartsWith(u, AUTH) THEN "auth"
      ELSE "other"

\* a faulty variant: mode t4 is not told apart from baseline after the upgrade
SmtpOnHandshakeNoT4(ok) ==
  IF ~ok
    THEN [Keep EXCEPT !.buf = buf, !.handshake = "failed",
                      !.out = <<EvCommon(tls_active, "starttls") @@ [result |-> "wrap_failed"]>>,
                      !.pc = "done"]
  ELSE [Keep EXCEPT !.buf = <<>>, !.handshake = "ok", !.tls_active = TRUE]

\* tls_sock = self.server.ssl_context.wrap_socket(sock, server_side=True) and what follows it
\* A faulty handshake step: the connection counts as protected although wrap_socket raised.
SmtpOnHandshakeAlwaysTls(ok) ==
  IF ~ok
    THEN [Keep EXCEPT !.buf = buf, !.handshake = "failed", !.tls_active = TRUE,
                      !.out = <<EvCommon(TRUE, "starttls") @@ [result |-> "wrap_failed"]>>,
                      !.pc = "done"]
  ELSE IF dec.mode \in {"t4"}
    THEN [Keep EXCEPT !.buf = <<>>, !.handshake = "ok",
                      !.tls_active = TRUE,
                      !.out = <<EvCommon(TRUE, "disrupt")
                                  @@ [reason |-> "after_handshake", payload |-> "NOOP"],
                                Injected,
                                EvCommon(TRUE, "disconnect")>>,
                      !.pc = "done"]
  ELSE [Keep EXCEPT !.buf = <<>>, !.handshake = "ok", !.tls_active = TRUE]

\* A faulty handshake step: the upgraded connection goes on reading the old io.buf.
SmtpOnHandshakeKeepsBuffer(ok) ==
  IF ~ok
    THEN [Keep EXCEPT !.buf = buf, !.handshake = "failed",
                      !.out = <<EvCommon(tls_active, "starttls") @@ [result |-> "wrap_failed"]>>,
                      !.pc = "done"]
  ELSE IF dec.mode \in {"t4"}
    THEN [Keep EXCEPT !.buf = buf, !.handshake = "ok",
                      !.tls_active = TRUE,
                      !.out = <<EvCommon(TRUE, "disrupt")
                                  @@ [reason |-> "after_handshake", payload |-> "NOOP"],
                                Injected,
                                EvCommon(TRUE, "disconnect")>>,
                      !.pc = "done"]
  ELSE [Keep EXCEPT !.buf = buf, !.handshake = "ok", !.tls_active = TRUE]

SmtpOnHandshake(ok) ==
  IF ~ok
    THEN [Keep EXCEPT !.buf = buf, !.handshake = "failed",
                      !.out = <<EvCommon(tls_active, "starttls") @@ [result |-> "wrap_failed"]>>,
                      !.pc = "done"]
  ELSE IF dec.mode \in {"t4"}
    THEN [Keep EXCEPT !.buf = <<>>, !.handshake = "ok",
                      !.tls_active = TRUE,
                      !.out = <<EvCommon(TRUE, "disrupt")
                                  @@ [reason |-> "after_handshake", payload |-> "NOOP"],
                                Injected,
                                EvCommon(TRUE, "disconnect")>>,
                      !.pc = "done"]
  ELSE [Keep EXCEPT !.buf = <<>>, !.handshake = "ok", !.tls_active = TRUE]

\* ------------------------------------------------------------------ IMAP handler

LOGOUT == <<"L","O","G","O","U","T">>
CAPABILITY == <<"C","A","P","A","B","I","L","I","T","Y">>
CHECK == <<"C","H","E","C","K">>
STATUS == <<"S","T","A","T","U","S">>
SELECT == <<"S","E","L","E","C","T">>
EXAMINE == <<"E","X","A","M","I","N","E">>

ImapReadyText == "OK Begin TLS negotiation now"
ImapNotAvailableText == "BAD STARTTLS not available"
ImapLoginOkText == "OK Logged in"

ImapOnNone ==
  [Keep EXCEPT !.out = <<EvCommon(tls_active, "disconnect")>>,
               !.pc = "done"]

\* "if not parts: continue"
ImapOnEmpty == Keep

ImapOnLogout(tag) ==
  [Keep EXCEPT !.out = <<Untagged("BYE Logging out"), Tagged(tag, "OK LOGOUT completed")>>,
               !.pc = "done"]

ImapOnCapability(tag) ==
  LET starttls_advertised == (~tls_active) /\ (dec.mode \notin {"t1"})
      caps == <<"IMAP4rev1", "AUTH=PLAIN", "AUTH=LOGIN">>
              \o (IF (~tls_active) /\ (dec.mode \notin {"t1"}) THEN <<"STARTTLS">> ELSE <<>>)
  IN  [Keep EXCEPT !.out = <<EvCommon(tls_active, "capability")
                               @@ [starttls_advertised |-> starttls_advertised],
                             [tag |-> <<"*">>, text |-> <<"CAPABILITY">> \o caps],
                             Tagged(tag, "OK CAPABILITY completed")>>]

\* a faulty variant: mode t3 is not told apart from baseline
ImapOnStartTlsNoT3(tag) ==
  IF tls_active
    THEN [Keep EXCEPT !.out = <<EvCommon(tls_active, "starttls") @@ [result |-> "already_tls"],
                                Tagged(tag, "BAD STARTTLS not available")>>]
  ELSE IF dec.mode \in {"t1"}
    THEN [Keep EXCEPT !.out = <<EvCommon(tls_active, "starttls") @@ [result |-> "refused"],
                                Tagged(tag, "BAD STARTTLS not available")>>]
  ELSE IF dec.mode \in {"t2"}
    THEN [Keep EXCEPT !.out = <<Tagged(tag, "OK Begin TLS negotiation now"),
                                EvCommon(tls_active, "starttls") @@ [result |-> "drop_after_ok"],
                                EvCommon(tls_active, "disconnect")>>,
                      !.pc = "done"]
  ELSE [Keep EXCEPT !.out = <<Tagged(tag, "OK Begin TLS negotiation now"),
                              EvCommon(tls_active, "starttls") @@ [result |-> "ok"]>>,
                    !.pc = "handshake"]

\* A faulty STARTTLS: the mode is looked up in the store again when the command arrives.
ImapOnStartTlsResolvingAgain(tag) ==
  LET mode == decide_mode(store, client_ip, now).decision.mode
  IN  IF tls_active
        THEN [Keep EXCEPT !.out = <<EvCommon(tls_active, "starttls") @@ [result |-> "already_tls"],
                                    Tagged(tag, ImapNotAvailableText)>>]
      ELSE IF mode \in {"t1", "t3"}
        THEN [Keep EXCEPT !.out = <<EvCommon(tls_active, "starttls") @@ [result |-> "refused"],
                                    Tagged(tag, ImapNotAvailableText)>>]
      ELSE IF mode \in {"t2"}
        THEN [Keep EXCEPT !.out = <<Tagged(tag, ImapReadyText),
                                    EvCommon(tls_active, "starttls") @@ [result |-> "drop_after_ok"],
                                    EvCommon(tls_active, "disconnect")>>,
                          !.pc = "done"]
      ELSE [Keep EXCEPT !.out = <<Tagged(tag, ImapReadyText),
                                  EvCommon(tls_active, "starttls") @@ [result |-> "ok"]>>,
                        !.pc = "handshake"]

ImapOnStartTls(tag) ==
  IF tls_active
    THEN [Keep EXCEPT !.out = <<EvCommon(tls_active, "starttls") @@ [result |-> "already_tls"],
                                Tagged(tag, ImapNotAvailableText)>>]
  ELSE IF dec.mode \in {"t1"}
    THEN [Keep EXCEPT !.out = <<EvCommon(tls_active, "starttls") @@ [result |-> "refused"],
                                Tagged(tag, ImapNotAvailableText)>>]
  ELSE IF dec.mode \in {"t3"}
    THEN [Keep EXCEPT !.out = <<EvCommon(tls_active, "starttls") @@ [result |-> "refused"],
                                Tagged(tag, ImapNotAvailableText)>>]
  ELSE IF dec.mode \in {"t2"}
    THEN [Keep EXCEPT !.out = <<Tagged(tag, ImapReadyText),
                                EvCommon(tls_active, "starttls") @@ [result |-> "drop_after_ok"],
                                EvCommon(tls_active, "disconnect")>>,
                      !.pc = "done"]
  ELSE [Keep EXCEPT !.out = <<Tagged(tag, ImapReadyText),
                              EvCommon(tls_active, "starttls") @@ [result |-> "ok"]>>,
                    !.pc = "handshake"]

ImapOnCommand(tag, ucmd) ==
  LET cmd_name == SplitMax1(ucmd)[1]
  IN  [Keep EXCEPT !.out = <<EvShort(tls_active, "command") @@ [cmd |-> cmd_name],
                             Tagged(tag, "OK")>>]

ImapOnLogin(tag, cmd) ==
  LET halves == SplitMax1(cmd)
      rest == IF Len(halves) > 1 THEN halves[2] ELSE <<>>
      fields == SplitMax1(rest)
      username == IF Len(fields) > 0 THEN strip_quotes(fields[1]) ELSE None
  IN  [Keep EXCEPT !.out = AuthEvents("login_command", <<>>, username)
                             \o <<Tagged(tag, ImapLoginOkText)>>]

ImapOnOther(tag) ==
  [Keep EXCEPT !.out = <<Tagged(tag, "OK")>>]

ImapTag(l) == SplitMax1(l)[1]

ImapCmd(l) == IF Len(SplitMax1(l)) > 1 THEN SplitMax1(l)[2] ELSE <<>>

\* the if-chain on parts and ucmd = cmd.upper() of SelfTestIMAPHandler.handle
ImapCommandOf(l) ==
  LET parts == SplitMax1(l)
      ucmd == Upper(ImapCmd(l))
  IN  IF Len(parts) = 0 THEN "empty"
      ELSE IF StartsWith(ucmd, LOGOUT) THEN "logout"
      ELSE IF StartsWith(ucmd, CAPABILITY) THEN "capability"
      ELSE IF StartsWith(ucmd, STARTTLS) THEN "starttls"
      ELSE IF \/ StartsWith(ucmd, NOOP) \/ StartsWith(ucmd, CHECK) \/ StartsWith(ucmd, STATUS)
              \/ StartsWith(ucmd, SELECT) \/ StartsWith(ucmd, EXAMINE)
        THEN "command"
      ELSE IF StartsWith(ucmd, LOGIN) THEN "login"
      ELSE "other"

\* a faulty variant: the line is injected after every upgrade
ImapOnHandshakeAnyMode(ok) ==
  IF ~ok
    THEN [Keep EXCEPT !.buf = buf, !.handshake = "failed", !.pc = "done"]
  ELSE [Keep EXCEPT !.buf = <<>>, !.handshake = "ok",
                    !.tls_active = TRUE,
                    !.out = <<EvCommon(TRUE, "disrupt")
                                @@ [reason |-> "after_handshake", payload |-> "NOOP"],
                              Reply("NOOP"),
                              EvCommon(TRUE, "disconnect")>>,
                    !.pc = "done"]

\* tls_sock = self.server.ssl_context.wrap_socket(sock, server_side=True) and what follows it
ImapOnHandshake(ok) ==
  IF ~ok
    THEN [Keep EXCEPT !.buf = buf, !.handshake = "failed", !.pc = "done"]
  ELSE IF dec.mode \in {"t4"}
    THEN [Keep EXCEPT !.buf = <<>>, !.handshake = "ok",
                      !.tls_active = TRUE,
                      !.out = <<EvCommon(TRUE, "disrupt")
                                  @@ [reason |-> "after_handshake", payload |-> "NOOP"],
                                Injected,
                                EvCommon(TRUE, "disconnect")>>,
                      !.pc = "done"]
  ELSE [Keep EXCEPT !.buf = <<>>, !.handshake = "ok", !.tls_active = TRUE]

\* ------------------------------------------------------------------ the client's lines

Sp == <<" ">>

Tag == <<"a","1">>

AuthPlainLine(u, p) == AUTH \o Sp \o PLAIN \o Sp \o B64Encode(PlainMessage(u, p))

ImapLoginLine(u, p) == Tag \o Sp \o LOGIN \o Sp \o u \o Sp \o p

Blobs ==
  {B64Encode(t) : t \in Usernames \cup Passwords}
  \cup {B64Encode(PlainMessage(c[1], c[2])) : c \in Credentials}

SmtpLines ==
  {QUIT, RSET, NOOP, EHLO \o <<" ","c">>, <<"h","e","l","o"," ","c">>, STARTTLS,
   MAIL_FROM \o <<"<","a",">">>, RCPT_TO \o <<"<","b",">">>, DATA, <<".">>, <<"h","i">>,
   AUTH \o Sp \o LOGIN, <<"a","u","t","h"," ","p","l","a","i","n">>, AUTH,
   AUTH \o <<" ","X">>, AUTH \o Sp \o PLAIN \o <<" ","h","i">>}
  \cup {AuthPlainLine(c[1], c[2]) : c \in Credentials}
  \cup Blobs

ImapLines ==
  {Tag \o Sp \o LOGOUT, Tag \o Sp \o CAPABILITY, Tag \o Sp \o STARTTLS,
   Tag \o <<" ","n","o","o","p">>, Tag \o Sp \o SELECT \o <<" ","x">>,
   Tag \o Sp \o LOGIN, Tag \o <<" ","X">>, Tag, <<" ">>,
   Tag \o Sp \o LOGIN \o <<" ","\"">> \o U_A \o <<"\""," ">> \o P_1}
  \cup {ImapLoginLine(c[1], c[2]) : c \in Credentials}

\* what the clients of the model send while AUTH LOGIN is pending
AuthLoginLines == {B64Encode(t) : t \in Usernames \cup Passwords} \cup {QUIT, <<"h","i">>}

\* what the clients of the model send after the "334 " of AUTH PLAIN; None: nothing
AuthPlainResponses ==
  {B64Encode(PlainMessage(c[1], c[2])) : c \in Credentials}
  \cup {B64Encode(U_A \o <<NUL>> \o P_1), B64Encode(U_C), <<"h","i">>, None}

\* SmtpCommand and ImapCommandOf on the lines of the model, evaluated once
SmtpCommandTable == [l \in SmtpLines |-> SmtpCommand(l)]

ImapCommandTable == [l \in ImapLines |-> ImapCommandOf(l)]

\* which branch of the while loop of SelfTestSMTPHandler.handle the line l takes
\* A faulty loop body: QUIT is looked for before the DATA state is.
SmtpBranchQuitFirst(l) ==
  IF l = None THEN "none_line"
  ELSE IF SmtpCommand(l) = "quit" THEN "quit"
  ELSE IF in_data THEN (IF l = <<".">> THEN "data_end" ELSE "data_line")
  ELSE IF pending_auth_login
    THEN (IF pending_auth_login_username = None
            THEN "auth_login_username"
            ELSE "auth_login_password")
  ELSE SmtpCommandTable[l]

SmtpBranch(l) ==
  IF l = None THEN "none_line"
  ELSE IF in_data THEN (IF l = <<".">> THEN "data_end" ELSE "data_line")
  ELSE IF pending_auth_login
    THEN (IF pending_auth_login_username = None
            THEN "auth_login_username"
            ELSE "auth_login_password")
  ELSE SmtpCommandTable[l]

\* which branch of the while loop of SelfTestIMAPHandler.handle the line l takes
ImapBranch(l) == IF l = None THEN "none_line" ELSE ImapCommandTable[l]

\* ------------------------------------------------------------------ specification

Unresolved == [mode |-> "unresolved", source |-> <<"unresolved">>, session |-> None]

Unread == <<"Unread">>

Override(ip, mode, expires, session) ==
  [ip |-> ip, mode |-> mode, expires |-> expires, session |-> session]

InitStores ==
  {MissingStore}
  \cup {JsonStore([default_mode |-> m, overrides |-> <<>>]) : m \in Modes}
  \cup {JsonStore([default_mode |-> "baseline",
                   overrides |-> <<Override(IP_1, m, 1, S_A)>>]) : m \in Modes}
  \cup {JsonStore([default_mode |-> "t4",
                   overrides |-> <<[ip |-> IP_2, mode |-> "t1", expires |-> MaxNow + 1],
                                   Override(IP_1, "t3", 1, S_B)>>])}

\* the connection workers of the two servers (threads), set_mode and the web layer
Workers == {"worker1", "worker2"}

Procs == Workers \cup {"set_mode", "web"}

\* a process that is not inside a load or a save of the store
Idle ==
  [pc |-> "idle", ip |-> "", res |-> Unresolved, data |-> [overrides |-> <<>>], fd |-> "none"]

\* the latest step was not the end of a call
NoReturn == [proc |-> "", ip |-> "", how |-> "none", res |-> Unresolved]

\* process p returns res from its call for ip
Returns(p, ip, res) == [proc |-> p, ip |-> ip, how |-> "returned", res |-> res]

\* the call of process p for ip raises: "json" from json.load, "replace" from os.replace
Raises(p, ip, err) == [proc |-> p, ip |-> ip, how |-> err, res |-> Unresolved]

\* where _log_event is for a worker: not in it, with n events logged so far
NotLogging == [pc |-> "idle", at |-> 0, n |-> 0]

\* no guided run has been started
NoRun == [status |-> "none"]

\* the web layer has answered nothing yet
NoReply == [status |-> 0]

\* the threads of the web layer that handle requests side by side
Threads == {"thread1", "thread2"}

\* a thread that is handling no request
NoRequest == [pc |-> "idle", kind |-> "none", run |-> NoRun]

\* an empty log, no guided run, no request, no response
Untouched ==
  /\ log = <<>>
  /\ emitter = [w \in Workers |-> NotLogging]
  /\ run = NoRun
  /\ reqs = [t \in Threads |-> NoRequest]
  /\ peer = "sending"
  /\ reply = NoReply

\* a connection accepted by one of the servers, before handle() runs
Accepted(servers) ==
  /\ Untouched
  /\ \E l \in servers :
       /\ proto = l.proto
       /\ server_port = l.port
       /\ implicit_tls = l.implicit_tls
  /\ client_ip = IP_1
  /\ dec = Unresolved
  /\ pc = "accept"
  /\ tls_active = FALSE
  /\ pending_auth_login = FALSE
  /\ pending_auth_login_username = None
  /\ in_data = FALSE
  /\ data_bytes = 0
  /\ mail_from_set = FALSE
  /\ rcpt_count = 0
  /\ line = Unread
  /\ buf = <<>>
  /\ handshake = "none"
  /\ out = <<>>

Init ==
  /\ Untouched
  /\ now = 1
  /\ store \in InitStores
  /\ tmp = MissingStore
  /\ procs = [p \in Procs |-> Idle]
  /\ ret = NoReturn
  /\ \E l \in Listeners :
       /\ proto = l.proto
       /\ server_port = l.port
       /\ implicit_tls = l.implicit_tls
  /\ client_ip = IP_1
  /\ dec = Unresolved
  /\ pc = "accept"
  /\ tls_active = FALSE
  /\ pending_auth_login = FALSE
  /\ pending_auth_login_username = None
  /\ in_data = FALSE
  /\ data_bytes = 0
  /\ mail_from_set = FALSE
  /\ rcpt_count = 0
  /\ line = Unread
  /\ buf = <<>>
  /\ handshake = "none"
  /\ out = <<>>

\* time passes before the connection is accepted
Tick ==
  /\ pc = "accept"
  /\ now < MaxNow
  /\ now' = now + 1
  /\ UNCHANGED <<store, proto, server_port, implicit_tls, client_ip, dec, pc, tls_active,
                 pending_auth_login, pending_auth_login_username, in_data, data_bytes,
                 mail_from_set, rcpt_count, line, buf, handshake, out, tmp, procs, ret,
                 OtherVars>>

\* handle() up to the while loop
Connect(greeting) ==
  LET d == decide_mode(store, client_ip, now)
      blocked == implicit_tls /\ should_block_implicit_tls(d.decision.mode, server_port)
  IN  /\ store' = d.store
      /\ dec' = d.decision
      /\ tls_active' = implicit_tls
      /\ out' = IF blocked
                  THEN <<EvCommonOf(d.decision, implicit_tls, "disconnect")
                           @@ [reason |-> "implicit_tls_blocked"]>>
                  ELSE <<EvCommonOf(d.decision, implicit_tls, "connect"), greeting>>
      /\ pc' = IF blocked THEN "done" ELSE "loop"
      /\ buf' = <<>>
      /\ UNCHANGED <<now, proto, server_port, implicit_tls, client_ip,
                     pending_auth_login, pending_auth_login_username, in_data, data_bytes,
                     mail_from_set, rcpt_count, line, handshake, tmp, procs, ret,
                     OtherVars>>

SmtpConnect ==
  /\ proto = "smtp"
  /\ pc = "accept"
  /\ Connect(Reply("220 selftest ESMTP"))

ImapConnect ==
  /\ proto = "imap"
  /\ pc = "accept"
  /\ Connect(Untagged("OK selftest IMAP4rev1 Service Ready"))

\* the step leaves the locals, the events and the replies as r says
Apply(r) ==
  /\ buf' = r.buf
  /\ tls_active' = r.tls_active
  /\ pending_auth_login' = r.pending_auth_login
  /\ pending_auth_login_username' = r.pending_auth_login_username
  /\ in_data' = r.in_data
  /\ data_bytes' = r.data_bytes
  /\ mail_from_set' = r.mail_from_set
  /\ rcpt_count' = r.rcpt_count
  /\ pc' = r.pc
  /\ handshake' = r.handshake
  /\ out' = r.out
  /\ UNCHANGED <<now, store, proto, server_port, implicit_tls, client_ip, dec, tmp, procs, ret,
                 OtherVars>>

WithinBounds(r) == r.rcpt_count <= MaxRcpt /\ r.data_bytes <= MaxDataBytes

\* line = io.recv_line() and the branch of the loop body that the line takes
SmtpNoLine ==
  /\ proto = "smtp"
  /\ pc = "loop"
  /\ buf = <<>>
  /\ line' = None
  /\ Apply(SmtpOnNone)

SmtpDataEnd ==
  /\ proto = "smtp"
  /\ pc = "loop"
  /\ \E l \in SmtpLines :
       /\ SmtpBranch(l) = "data_end"
       /\ WithinBounds(SmtpOnDataEnd)
       /\ Arrives(l)
       /\ line' = l
       /\ Apply(SmtpOnDataEnd)

SmtpDataLine ==
  /\ proto = "smtp"
  /\ pc = "loop"
  /\ \E l \in SmtpLines :
       /\ SmtpBranch(l) = "data_line"
       /\ WithinBounds(SmtpOnDataLine(l))
       /\ Arrives(l)
       /\ line' = l
       /\ Apply(SmtpOnDataLine(l))

SmtpAuthLoginUsername ==
  /\ proto = "smtp"
  /\ pc = "loop"
  /\ \E l \in AuthLoginLines :
       /\ SmtpBranch(l) = "auth_login_username"
       /\ WithinBounds(SmtpOnAuthLoginUsername(l))
       /\ Arrives(l)
       /\ line' = l
       /\ Apply(SmtpOnAuthLoginUsername(l))

SmtpAuthLoginPassword ==
  /\ proto = "smtp"
  /\ pc = "loop"
  /\ \E l \in AuthLoginLines :
       /\ SmtpBranch(l) = "auth_login_password"
       /\ WithinBounds(SmtpOnAuthLoginPassword(l))
       /\ Arrives(l)
       /\ line' = l
       /\ Apply(SmtpOnAuthLoginPassword(l))

SmtpQuit ==
  /\ proto = "smtp"
  /\ pc = "loop"
  /\ \E l \in SmtpLines :
       /\ SmtpBranch(l) = "quit"
       /\ WithinBounds(SmtpOnQuit)
       /\ Arrives(l)
       /\ line' = l
       /\ Apply(SmtpOnQuit)

SmtpRset ==
  /\ proto = "smtp"
  /\ pc = "loop"
  /\ \E l \in SmtpLines :
       /\ SmtpBranch(l) = "rset"
       /\ WithinBounds(SmtpOnRset)
       /\ Arrives(l)
       /\ line' = l
       /\ Apply(SmtpOnRset)

SmtpNoop ==
  /\ proto = "smtp"
  /\ pc = "loop"
  /\ \E l \in SmtpLines :
       /\ SmtpBranch(l) = "noop"
       /\ WithinBounds(SmtpOnNoop)
       /\ Arrives(l)
       /\ line' = l
       /\ Apply(SmtpOnNoop)

SmtpEhlo ==
  /\ proto = "smtp"
  /\ pc = "loop"
  /\ \E l \in SmtpLines :
       /\ SmtpBranch(l) = "ehlo"
       /\ WithinBounds(SmtpOnEhlo)
       /\ Arrives(l)
       /\ line' = l
       /\ Apply(SmtpOnEhlo)

SmtpStartTls ==
  /\ proto = "smtp"
  /\ pc = "loop"
  /\ \E l \in SmtpLines :
       /\ SmtpBranch(l) = "starttls"
       /\ WithinBounds(SmtpOnStartTls)
       /\ Arrives(l)
       /\ line' = l
       /\ Apply(SmtpOnStartTls)

SmtpMailFrom ==
  /\ proto = "smtp"
  /\ pc = "loop"
  /\ \E l \in SmtpLines :
       /\ SmtpBranch(l) = "mail_from"
       /\ WithinBounds(SmtpOnMailFrom)
       /\ Arrives(l)
       /\ line' = l
       /\ Apply(SmtpOnMailFrom)

SmtpRcptTo ==
  /\ proto = "smtp"
  /\ pc = "loop"
  /\ \E l \in SmtpLines :
       /\ SmtpBranch(l) = "rcpt_to"
       /\ WithinBounds(SmtpOnRcptTo)
       /\ Arrives(l)
       /\ line' = l
       /\ Apply(SmtpOnRcptTo)

SmtpData ==
  /\ proto = "smtp"
  /\ pc = "loop"
  /\ \E l \in SmtpLines :
       /\ SmtpBranch(l) = "data"
       /\ WithinBounds(SmtpOnData)
       /\ Arrives(l)
       /\ line' = l
       /\ Apply(SmtpOnData)

SmtpAuth ==
  /\ proto = "smtp"
  /\ pc = "loop"
  /\ \E l \in SmtpLines :
       /\ SmtpBranch(l) = "auth"
       /\ WithinBounds(SmtpOnAuth(l))
       /\ Arrives(l)
       /\ line' = l
       /\ Apply(SmtpOnAuth(l))

SmtpOther ==
  /\ proto = "smtp"
  /\ pc = "loop"
  /\ \E l \in SmtpLines :
       /\ SmtpBranch(l) = "other"
       /\ WithinBounds(SmtpOnOther)
       /\ Arrives(l)
       /\ line' = l
       /\ Apply(SmtpOnOther)

SmtpAuthPlainResponse ==
  /\ proto = "smtp"
  /\ pc = "auth_plain"
  /\ \E resp \in AuthPlainResponses :
       /\ Arrives(resp)
       /\ line' = resp
       /\ Apply(SmtpOnAuthPlainResponse(resp))

SmtpHandshake ==
  /\ proto = "smtp"
  /\ pc = "handshake"
  /\ \E ok \in BOOLEAN : Apply(SmtpOnHandshake(ok))
  /\ UNCHANGED line

ImapNoLine ==
  /\ proto = "imap"
  /\ pc = "loop"
  /\ buf = <<>>
  /\ line' = None
  /\ Apply(ImapOnNone)

ImapEmpty ==
  /\ proto = "imap"
  /\ pc = "loop"
  /\ \E l \in ImapLines :
       /\ ImapBranch(l) = "empty"
       /\ Arrives(l)
       /\ line' = l
       /\ Apply(ImapOnEmpty)

ImapLogout ==
  /\ proto = "imap"
  /\ pc = "loop"
  /\ \E l \in ImapLines :
       /\ ImapBranch(l) = "logout"
       /\ Arrives(l)
       /\ line' = l
       /\ Apply(ImapOnLogout(ImapTag(l)))

ImapCapability ==
  /\ proto = "imap"
  /\ pc = "loop"
  /\ \E l \in ImapLines :
       /\ ImapBranch(l) = "capability"
       /\ Arrives(l)
       /\ line' = l
       /\ Apply(ImapOnCapability(ImapTag(l)))

ImapStartTls ==
  /\ proto = "imap"
  /\ pc = "loop"
  /\ \E l \in ImapLines :
       /\ ImapBranch(l) = "starttls"
       /\ Arrives(l)
       /\ line' = l
       /\ Apply(ImapOnStartTls(ImapTag(l)))

ImapCommand ==
  /\ proto = "imap"
  /\ pc = "loop"
  /\ \E l \in ImapLines :
       /\ ImapBranch(l) = "command"
       /\ Arrives(l)
       /\ line' = l
       /\ Apply(ImapOnCommand(ImapTag(l), Upper(ImapCmd(l))))

ImapLogin ==
  /\ proto = "imap"
  /\ pc = "loop"
  /\ \E l \in ImapLines :
       /\ ImapBranch(l) = "login"
       /\ Arrives(l)
       /\ line' = l
       /\ Apply(ImapOnLogin(ImapTag(l), ImapCmd(l)))

ImapOther ==
  /\ proto = "imap"
  /\ pc = "loop"
  /\ \E l \in ImapLines :
       /\ ImapBranch(l) = "other"
       /\ Arrives(l)
       /\ line' = l
       /\ Apply(ImapOnOther(ImapTag(l)))

ImapHandshake ==
  /\ proto = "imap"
  /\ pc = "handshake"
  /\ \E ok \in BOOLEAN : Apply(ImapOnHandshake(ok))
  /\ UNCHANGED line

Next ==
  \/ Tick
  \/ SmtpConnect
  \/ SmtpNoLine
  \/ SmtpDataEnd
  \/ SmtpDataLine
  \/ SmtpAuthLoginUsername
  \/ SmtpAuthLoginPassword
  \/ SmtpQuit
  \/ SmtpRset
  \/ SmtpNoop
  \/ SmtpEhlo
  \/ SmtpStartTls
  \/ SmtpHandshake
  \/ SmtpMailFrom
  \/ SmtpRcptTo
  \/ SmtpData
  \/ SmtpAuth
  \/ SmtpAuthPlainResponse
  \/ SmtpOther
  \/ ImapConnect
  \/ ImapNoLine
  \/ ImapEmpty
  \/ ImapLogout
  \/ ImapCapability
  \/ ImapStartTls
  \/ ImapHandshake
  \/ ImapCommand
  \/ ImapLogin
  \/ ImapOther

Spec == Init /\ [][Next]_vars

\* ------------------------------------------------------------------ the engine on any server

\* the servers main() builds, and a SelfTestSMTPServer built with implicit_tls = True on a
\* port that _should_block_implicit_tls does not know
EngineListeners ==
  Listeners \cup {[proto |-> "smtp", port |-> 2465, implicit_tls |-> TRUE]}

EngineInit ==
  /\ now = 1
  /\ store \in InitStores
  /\ tmp = MissingStore
  /\ procs = [p \in Procs |-> Idle]
  /\ ret = NoReturn
  /\ Accepted(EngineListeners)

EngineSpec == EngineInit /\ [][Next]_vars

\* ------------------------------------------------------------------ usernames at the limits

\* the IMAP LOGIN line of a client that quotes the username
ImapQuotedLoginLine(u, p) == Tag \o Sp \o LOGIN \o <<" ","\"">> \o u \o <<"\""," ">> \o p

\* "AUTH PLAIN <blob>" read in the command loop
EdgeAuthPlain ==
  /\ proto = "smtp"
  /\ pc = "loop"
  /\ ~in_data
  /\ ~pending_auth_login
  /\ \E u \in EdgeUsernames :
       LET l == AuthPlainLine(u, P_1)
       IN  /\ SmtpCommand(l) = "auth"
           /\ Arrives(l)
           /\ line' = l
           /\ Apply(SmtpOnAuth(l))

\* the blob read after the "334 " of AUTH PLAIN
EdgeAuthPlainResponse ==
  /\ proto = "smtp"
  /\ pc = "auth_plain"
  /\ \E u \in EdgeUsernames :
       LET resp == B64Encode(PlainMessage(u, P_1))
       IN  /\ line' = resp
           /\ Apply(SmtpOnAuthPlainResponse(resp))

\* the first line read while AUTH LOGIN is pending
EdgeAuthLoginUsername ==
  /\ proto = "smtp"
  /\ pc = "loop"
  /\ ~in_data
  /\ pending_auth_login
  /\ pending_auth_login_username = None
  /\ \E u \in EdgeUsernames :
       LET l == B64Encode(u)
       IN  /\ line' = l
           /\ Apply(SmtpOnAuthLoginUsername(l))

\* "<tag> LOGIN <username> <password>"; a line holds no "\n" (recv_line splits there)
EdgeImapLogin ==
  /\ proto = "imap"
  /\ pc = "loop"
  /\ \E u \in {v \in EdgeUsernames : \A i \in 1..Len(v) : v[i] # "\n"}, quoted \in BOOLEAN :
       LET l == IF quoted THEN ImapQuotedLoginLine(u, P_1) ELSE ImapLoginLine(u, P_1)
       IN  /\ ImapCommandOf(l) = "login"
           /\ Arrives(l)
           /\ line' = l
           /\ Apply(ImapOnLogin(ImapTag(l), ImapCmd(l)))

UsernameNext ==
  \/ Next
  \/ EdgeAuthPlain
  \/ EdgeAuthPlainResponse
  \/ EdgeAuthLoginUsername
  \/ EdgeImapLogin

UsernameSpec == Init /\ [][UsernameNext]_vars

\* ------------------------------------------------------- clients that pipeline
\* One sock.recv of recv_line returns two lines: the first is returned to the handler, the
\* second stays in io.buf. The pipelining clients write their STARTTLS in lower case.
starttls == <<"s","t","a","r","t","t","l","s">>

SmtpPipelined == {EHLO \o <<" ","c">>, MAIL_FROM \o <<"<","a",">">>, NOOP}

ImapPipelined == {Tag \o Sp \o CAPABILITY, Tag \o Sp \o LOGOUT}

SmtpPipelinedStartTls ==
  /\ proto = "smtp"
  /\ pc = "loop"
  /\ buf = <<>>
  /\ ~in_data
  /\ ~pending_auth_login
  /\ \E rest \in SmtpPipelined :
       /\ SmtpCommand(starttls) = "starttls"
       /\ line' = starttls
       /\ Apply([SmtpOnStartTls EXCEPT !.buf = <<rest>>])

ImapPipelinedStartTls ==
  /\ proto = "imap"
  /\ pc = "loop"
  /\ buf = <<>>
  /\ \E rest \in ImapPipelined :
       LET l == Tag \o Sp \o starttls
       IN  /\ Upper(ImapCmd(l)) = STARTTLS
           /\ line' = l
           /\ Apply([ImapOnStartTls(ImapTag(l)) EXCEPT !.buf = <<rest>>])

PipelineNext ==
  \/ Next
  \/ SmtpPipelinedStartTls
  \/ ImapPipelinedStartTls

PipelineSpec == Init /\ [][PipelineNext]_vars

\* ------------------------------------------------------------------ the store under its processes

HandlerVars ==
  <<proto, server_port, implicit_tls, client_ip, dec, pc, tls_active, pending_auth_login,
    pending_auth_login_username, in_data, data_bytes, mail_from_set, rcpt_count, line, buf,
    handshake, out>>

ConnVars == <<HandlerVars, OtherVars>>

\* the store files the processes start from
StoreFiles ==
  {MissingStore,
   Unparseable,
   JsonStore([default_mode |-> "t2", overrides |-> <<>>]),
   JsonStore([default_mode |-> "t2",
              overrides |-> <<Override(IP_1, "t1", 1, S_A), Override(IP_1, "t4", MaxTime + 1, S_B)>>]),
   JsonStore([default_mode |-> "t2",
              overrides |-> <<Override(IP_2, "t4", 1, S_A), Override(IP_1, "t1", MaxTime + 1, S_A),
                              Override(IP_1, "t4", MaxTime + 2, S_B)>>]),
   JsonStore([default_mode |-> "t2",
              overrides |-> <<[ip |-> IP_1, expires |-> MaxTime + 1]>>]),
   JsonStore([overrides |-> <<Override(IP_2, "t4", MaxTime + 1, S_A)>>])}

\* --ttl of set_mode
Ttls == {1}

\* ttl of /start: 60..3600 seconds, any other is answered "Invalid ttl"
WebTtls == {60}

\* --mode of set_mode and mode of /start
WrittenModes == {"t3"}

StoreInit ==
  /\ now = 1
  /\ store \in StoreFiles
  /\ tmp = MissingStore
  /\ procs = [p \in Procs |-> Idle]
  /\ ret = NoReturn
  /\ Accepted({[proto |-> "smtp", port |-> 587, implicit_tls |-> FALSE]})

\* fewer than MaxBusy processes are between the load and the end of the save of a call
Free == Cardinality({q \in Procs : procs[q].pc # "idle"}) < MaxBusy

StoreTick ==
  /\ now < MaxTime
  /\ now' = now + 1
  /\ UNCHANGED <<store, tmp, procs, ret, ConnVars>>

\* _decide_mode up to its return or its call of _save_mode_store
WorkerResolve(p, ip) ==
  /\ procs[p].pc = "idle"
  /\ Free
  /\ IF ~Loads(store)
       THEN /\ ret' = Raises(p, ip, "json")
            /\ UNCHANGED procs
       ELSE LET r == decide_mode(store, ip, now)
            IN  IF r.store = store
                  THEN /\ ret' = Returns(p, ip, r.decision)
                       /\ UNCHANGED procs
                  ELSE /\ ret' = NoReturn
                       /\ procs' = [procs EXCEPT ![p] =
                            [Idle EXCEPT !.pc = "save_open", !.ip = ip, !.res = r.decision,
                                         !.data = r.store.data]]
  /\ UNCHANGED <<now, store, tmp, ConnVars>>

Resolve == \E p \in Workers : \E ip \in {IP_1, IP_2} : WorkerResolve(p, ip)

\* set_mode.main up to its call of _save
SetMode ==
  /\ procs["set_mode"].pc = "idle"
  /\ Free
  /\ \E ip \in {IP_1, ""} : \E mode \in WrittenModes : \E ttl \in Ttls :
       IF ~Loads(store)
         THEN /\ ret' = Raises("set_mode", ip, "json")
              /\ UNCHANGED procs
         ELSE /\ ret' = NoReturn
              /\ procs' = [procs EXCEPT !["set_mode"] =
                   [Idle EXCEPT !.pc = "save_open", !.ip = ip,
                                !.res = [ip |-> ip, mode |-> mode, expires |-> now + ttl],
                                !.data = set_mode_main(load_mode_store(store), ip, mode, ttl,
                                                       now)]]
  /\ UNCHANGED <<now, store, tmp, ConnVars>>

\* /start of the web layer up to its call of _save_store
WebStart ==
  /\ procs["web"].pc = "idle"
  /\ Free
  /\ \E mode \in WrittenModes : \E ttl \in WebTtls :
       IF ~Loads(store)
         THEN /\ ret' = Raises("web", IP_1, "json")
              /\ UNCHANGED procs
         ELSE /\ ret' = NoReturn
              /\ procs' = [procs EXCEPT !["web"] =
                   [Idle EXCEPT !.pc = "save_open", !.ip = IP_1,
                                !.res = [ip |-> IP_1, mode |-> mode, expires |-> now + ttl,
                                         session |-> S_A, scenario |-> "immediate"],
                                !.data = web_start(load_store(store), IP_1, mode, ttl, S_A,
                                                   "immediate", now)]]
  /\ UNCHANGED <<now, store, tmp, ConnVars>>

\* with tmp.open("w", encoding="utf-8") as f: the file is created or truncated
SaveOpen ==
  \E p \in Procs :
    /\ procs[p].pc = "save_open"
    /\ tmp' = EmptyFile
    /\ procs' = [procs EXCEPT ![p].pc = "save_write", ![p].fd = "tmp"]
    /\ ret' = NoReturn
    /\ UNCHANGED <<now, store, ConnVars>>

\* json.dump(data, f) and the end of the with block: the text reaches the file f was
\* opened on, wherever that file is linked by now
SaveWrite ==
  \E p \in Procs :
    /\ procs[p].pc = "save_write"
    /\ CASE procs[p].fd = "tmp" ->
               /\ tmp' \in Written(tmp, procs[p].data)
               /\ UNCHANGED store
         [] procs[p].fd = "path" ->
               /\ store' \in Written(store, procs[p].data)
               /\ UNCHANGED tmp
         [] OTHER -> UNCHANGED <<store, tmp>>
    /\ procs' = [procs EXCEPT ![p].pc = "save_replace", ![p].fd = "none"]
    /\ ret' = NoReturn
    /\ UNCHANGED <<now, ConnVars>>

\* os.replace(tmp, path), and the return of the call
SaveReplace ==
  \E p \in Procs :
    /\ procs[p].pc = "save_replace"
    /\ IF tmp.kind = "missing"
         THEN /\ ret' = Raises(p, procs[p].ip, "replace")
              /\ procs' = [procs EXCEPT ![p] = Idle]
              /\ UNCHANGED <<store, tmp>>
         ELSE /\ store' = tmp
              /\ tmp' = MissingStore
              /\ ret' = Returns(p, procs[p].ip, procs[p].res)
              /\ procs' = [q \in Procs |->
                   IF q = p THEN Idle
                   ELSE IF procs[q].fd = "tmp" THEN [procs[q] EXCEPT !.fd = "path"]
                   ELSE IF procs[q].fd = "path" THEN [procs[q] EXCEPT !.fd = "unlinked"]
                   ELSE procs[q]]
    /\ UNCHANGED <<now, ConnVars>>

StoreNext ==
  \/ StoreTick
  \/ Resolve
  \/ SetMode
  \/ WebStart
  \/ SaveOpen
  \/ SaveWrite
  \/ SaveReplace

StoreSpec == StoreInit /\ [][StoreNext]_vars

\* ------------------------------------------------------------------ the workers alone

\* the store files of StoreFiles, and one with overrides that expire one after the other
PruneFiles ==
  StoreFiles
  \cup {JsonStore([default_mode |-> "t2",
                   overrides |-> <<Override(IP_2, "t4", 1, S_A), Override(IP_1, "t1", 2, S_A),
                                   Override(IP_1, "t4", MaxTime + 1, S_B)>>])}

PruneInit ==
  /\ now = 1
  /\ store \in PruneFiles
  /\ tmp = MissingStore
  /\ procs = [p \in Procs |-> Idle]
  /\ ret = NoReturn
  /\ Accepted({[proto |-> "smtp", port |-> 587, implicit_tls |-> FALSE]})

\* connection workers resolve and prune; no set_mode and no web request runs
PruneNext ==
  \/ StoreTick
  \/ Resolve
  \/ SaveOpen
  \/ SaveWrite
  \/ SaveReplace

PruneSpec == PruneInit /\ [][PruneNext]_vars

\* ------------------------------------------------------------------ the writers of overrides

\* add of /api/extend: 60..3600 seconds, any other is answered "invalid add"
Adds == {60}

\* /api/extend of the web layer up to its call of _save_store
WebExtend ==
  /\ procs["web"].pc = "idle"
  /\ Free
  /\ \E mode \in WrittenModes : \E add \in Adds :
       IF ~Loads(store)
         THEN /\ ret' = Raises("web", IP_1, "json")
              /\ UNCHANGED procs
         ELSE /\ \A i \in 1..Len(api_extend(load_store(store), IP_1, mode, S_B, add, now).overrides) :
                   api_extend(load_store(store), IP_1, mode, S_B, add, now).overrides[i].ip = IP_1
                     => api_extend(load_store(store), IP_1, mode, S_B, add, now).overrides[i].expires
                          <= now + MaxAhead
              /\ ret' = NoReturn
              /\ procs' = [procs EXCEPT !["web"] =
                   [Idle EXCEPT !.pc = "save_open", !.ip = IP_1,
                                !.res = [ip |-> IP_1, mode |-> mode],
                                !.data = api_extend(load_store(store), IP_1, mode, S_B, add,
                                                    now)]]
  /\ UNCHANGED <<now, store, tmp, ConnVars>>

\* /api/guided/run/start of the web layer up to its call of _save_store
WebGuidedStart ==
  /\ procs["web"].pc = "idle"
  /\ Free
  /\ \E mode \in WrittenModes :
       IF ~Loads(store)
         THEN /\ ret' = Raises("web", IP_1, "json")
              /\ UNCHANGED procs
         ELSE /\ ret' = NoReturn
              /\ procs' = [procs EXCEPT !["web"] =
                   [Idle EXCEPT !.pc = "save_open", !.ip = IP_1,
                                !.res = [ip |-> IP_1, mode |-> mode,
                                         expires |-> now + GuidedTtl, session |-> S_B,
                                         scenario |-> "immediate"],
                                !.data = guided_run_start(load_store(store), IP_1, "run1",
                                                          [mode |-> mode,
                                                           scenario |-> "immediate"],
                                                          S_B, now)]]
  /\ UNCHANGED <<now, store, tmp, ConnVars>>

\* no process is between its load and the end of its save
Quiet == \A q \in Procs : procs[q].pc = "idle"

\* set_mode and the endpoints of the web layer that write an override, one call after the
\* other
WriteNext ==
  \/ StoreTick
  \/ Quiet /\ SetMode
  \/ Quiet /\ WebStart
  \/ Quiet /\ WebExtend
  \/ Quiet /\ WebGuidedStart
  \/ SaveOpen
  \/ SaveWrite
  \/ SaveReplace

WriteSpec == StoreInit /\ [][WriteNext]_vars

\* ------------------------------------------------------------------ properties

\* the step reads a line and the loop body of the SMTP handler takes branch b
SmtpTakes(b) ==
  /\ proto = "smtp"
  /\ pc = "loop"
  /\ line' \in SmtpLines \cup {None}
  /\ SmtpBranch(line') = b

\* the step reads a line and the loop body of the IMAP handler takes branch b
ImapTakes(b) ==
  /\ proto = "imap"
  /\ pc = "loop"
  /\ line' \in ImapLines \cup {None}
  /\ ImapBranch(line') = b

StartTlsStep == SmtpTakes("starttls") \/ ImapTakes("starttls")

CapabilityStep == SmtpTakes("ehlo") \/ ImapTakes("capability")

HandshakeStep == pc = "handshake" /\ pc' # "handshake"

ConnectStep == pc = "accept" /\ pc' # "accept"

\* the replies to the STARTTLS command just read
ReadyReply ==
  IF proto = "smtp"
    THEN [tag |-> <<>>, text |-> <<"220 2.0.0 Ready to start TLS">>]
    ELSE [tag |-> Tag, text |-> <<"OK Begin TLS negotiation now">>]

NegativeReply ==
  IF proto = "smtp"
    THEN [tag |-> <<>>, text |-> <<"454 TLS not available due to temporary reason">>]
    ELSE [tag |-> Tag, text |-> <<"BAD STARTTLS not available">>]

ReadyTexts == {<<"220 2.0.0 Ready to start TLS">>, <<"OK Begin TLS negotiation now">>}

\* the worker has returned: nothing is read, logged or sent any more
Returned == pc = "done" => UNCHANGED vars

EventNames(evs) == [i \in 1..Len(evs) |-> evs[i].event]

IsStartTlsEvent(e, result) ==
  e.event = "starttls" /\ e.result = result /\ e.mode = dec.mode /\ e.proto = proto

Contains(s, t) == \E i \in 0..(Len(s) - Len(t)) : SubSeq(s, i + 1, i + Len(t)) = t

TextFields == {"username", "username_session", "session", "override_session", "auth_mech", "cmd"}

\* no event of evs has a password field, holds the text p, or holds a base64 blob
NoPassword(evs, p) ==
  \A i \in 1..Len(evs) :
    /\ "password" \notin DOMAIN evs[i]
    /\ \A k \in TextFields \cap DOMAIN evs[i] :
         /\ ~Contains(evs[i][k], p)
         /\ \A j \in 1..Len(evs[i][k]) : ~IsB64Name(evs[i][k][j])

\* the credentials that differ from c in the password only
Twins(c) == {d \in Usernames \X Passwords : d[1] = c[1]}

\* C1: the events and the state a step leaves do not depend on the password of the line it
\* read (AUTH PLAIN with initial response, the AUTH PLAIN continuation line, the AUTH LOGIN
\* password line, IMAP LOGIN): the step on the same line with another password leaves the
\* same events, replies and locals, so the event log of two runs that differ only in the
\* password is the same; and no event of the step has a password field, contains the
\* password, or contains the base64 payload.
C1_PasswordStep ==
  /\ \A c \in Credentials :
       /\ (SmtpTakes("auth") /\ line' = AuthPlainLine(c[1], c[2])) =>
            /\ \A d \in Twins(c) : Apply(SmtpOnAuth(AuthPlainLine(d[1], d[2])))
            /\ NoPassword(emitted', c[2])
            /\ Len(emitted') > 0
       /\ (proto = "smtp" /\ pc = "auth_plain" /\ line' = B64Encode(PlainMessage(c[1], c[2]))) =>
            /\ \A d \in Twins(c) :
                 Apply(SmtpOnAuthPlainResponse(B64Encode(PlainMessage(d[1], d[2]))))
            /\ NoPassword(emitted', c[2])
            /\ Len(emitted') > 0
       /\ (ImapTakes("login") /\ line' = ImapLoginLine(c[1], c[2])) =>
            /\ \A d \in Twins(c) :
                 Apply(ImapOnLogin(Tag, LOGIN \o Sp \o d[1] \o Sp \o d[2]))
            /\ NoPassword(emitted', c[2])
            /\ Len(emitted') > 0
  /\ \A p \in Passwords :
       (/\ SmtpTakes("auth_login_password")
        /\ pending_auth_login_username \in Usernames
        /\ line' = B64Encode(p)) =>
         /\ \A q \in Passwords : Apply(SmtpOnAuthLoginPassword(B64Encode(q)))
         /\ NoPassword(emitted', p)
         /\ Len(emitted') > 0

C2_T4Step ==
  /\ (StartTlsStep /\ dec.mode = "t4" /\ ~tls_active) =>
       /\ sent' = <<ReadyReply>>
       /\ Len(emitted') = 1
       /\ IsStartTlsEvent(emitted'[1], "ok")
       /\ pc' = "handshake"
  /\ (HandshakeStep /\ dec.mode = "t4" /\ handshake' = "ok") =>
       /\ EventNames(emitted) = <<"starttls">>
       /\ emitted[1].result = "ok"
       /\ Len(out') = 3
       /\ IsEvent(out'[1]) /\ out'[1].event = "disrupt" /\ out'[1].reason = "after_handshake"
       /\ out'[1].tls
       /\ out'[2] = [tag |-> <<>>, text |-> <<"NOOP">>]
       /\ IsEvent(out'[3]) /\ out'[3].event = "disconnect"
       /\ tls_active'
       /\ pc' = "done"
  /\ Returned

C2_T4DisruptsAfterHandshake == [][C2_T4Step]_vars

C2_Witness ==
  /\ proto = "imap"
  /\ dec.mode = "t4"
  /\ handshake = "ok"
  /\ pc = "done"
  /\ Len(sent) = 1

\* C3: in mode t2 a STARTTLS command on a plaintext connection is answered with the ready
\* reply and the worker returns without attempting the handshake; on a t2 connection that
\* started in plaintext tls_active is never true and nothing is processed after STARTTLS.
C3_T2Step ==
  /\ (StartTlsStep /\ dec.mode = "t2" /\ ~tls_active) =>
       /\ sent' = <<ReadyReply>>
       /\ IsSend(out'[1])
       /\ handshake' = "none"
       /\ pc' = "done"
       /\ ~tls_active'
  /\ Returned

C3_T2State ==
  (dec.mode = "t2" /\ ~implicit_tls) =>
    /\ ~tls_active
    /\ pc # "handshake"
    /\ handshake = "none"

C3_T2DropsAfterReady == []C3_T2State /\ [][C3_T2Step]_vars

C3_Witness ==
  /\ proto = "smtp"
  /\ dec.mode = "t2"
  /\ line = STARTTLS
  /\ pc = "done"
  /\ Len(sent) = 1
  /\ sent[1].text \in ReadyTexts

\* C4: in mode t3 every STARTTLS command on a plaintext connection gets the negative reply
\* (SMTP 454, IMAP tagged BAD) and no ready reply, no handshake is attempted, the connection
\* stays open, and tls_active is false and every event says tls false for the rest of the
\* connection.
C4_T3Step ==
  (StartTlsStep /\ dec.mode = "t3" /\ ~tls_active) =>
    /\ sent' = <<NegativeReply>>
    /\ Len(emitted') = 1
    /\ IsStartTlsEvent(emitted'[1], "refused")
    /\ handshake' = "none"
    /\ pc' = "loop"

C4_T3State ==
  (dec.mode = "t3" /\ ~implicit_tls) =>
    /\ ~tls_active
    /\ pc # "handshake"
    /\ handshake = "none"
    /\ \A i \in 1..Len(emitted) : ~emitted[i].tls
    /\ \A i \in 1..Len(sent) : sent[i].text \notin ReadyTexts

C4_T3Refuses == []C4_T3State /\ [][C4_T3Step]_vars

C4_Witness ==
  /\ proto = "imap"
  /\ dec.mode = "t3"
  /\ pc = "loop"
  /\ Len(sent) = 1
  /\ sent[1].text = <<"BAD STARTTLS not available">>

\* whether the capability response just sent lists STARTTLS
AdvertisesStartTls(replies) ==
  \E i \in 1..Len(replies) : \E j \in 1..Len(replies[i].text) :
    replies[i].text[j] \in {"250-STARTTLS", "STARTTLS"}

\* C5: in baseline mode on a plaintext connection STARTTLS is advertised, a STARTTLS command
\* is answered with the ready reply, the handshake comes next, and after a handshake that
\* succeeds the command loop goes on with tls_active true: the server sends no line of its
\* own and does not close the connection.
C5_BaselineStep ==
  /\ (CapabilityStep /\ dec.mode = "baseline" /\ ~tls_active) => AdvertisesStartTls(sent')
  /\ (StartTlsStep /\ dec.mode = "baseline" /\ ~tls_active) =>
       /\ sent' = <<ReadyReply>>
       /\ Len(emitted') = 1
       /\ IsStartTlsEvent(emitted'[1], "ok")
       /\ pc' = "handshake"
  /\ (HandshakeStep /\ dec.mode = "baseline" /\ handshake' = "ok") =>
       /\ out' = <<>>
       /\ tls_active'
       /\ pc' = "loop"

C5_BaselineUpgrades == [][C5_BaselineStep]_vars

C5_Witness ==
  /\ proto = "imap"
  /\ dec.mode = "baseline"
  /\ ~implicit_tls
  /\ handshake = "ok"
  /\ tls_active
  /\ pc = "loop"
  /\ out = <<>>

\* C6: a capability response (SMTP EHLO/HELO, IMAP CAPABILITY) lists STARTTLS if and only if
\* TLS is not active and the mode is not t1, and the starttls_advertised flag of the event
\* logged with it says what was sent.
C6_CapabilityStep ==
  CapabilityStep =>
    /\ AdvertisesStartTls(sent') <=> (~tls_active /\ dec.mode # "t1")
    /\ Len(emitted') = 1
    /\ emitted'[1].event \in {"ehlo", "capability"}
    /\ emitted'[1].starttls_advertised <=> AdvertisesStartTls(sent')

C6_StartTlsAdvertised == [][C6_CapabilityStep]_vars

C6_Witness ==
  /\ proto = "smtp"
  /\ dec.mode = "t1"
  /\ ~tls_active
  /\ Len(emitted) = 1
  /\ emitted[1].event = "ehlo"
  /\ ~emitted[1].starttls_advertised
  /\ ~AdvertisesStartTls(sent)

\* C7: on a connection in mode t1 no ready reply is ever sent, no TLS handshake is ever
\* attempted, and tls_active is true only if the connection arrived TLS-wrapped.
C7_T1NoStartTls ==
  dec.mode = "t1" =>
    /\ \A i \in 1..Len(sent) : sent[i].text \notin ReadyTexts
    /\ pc # "handshake"
    /\ handshake = "none"
    /\ tls_active => implicit_tls

\* the t1 connection on which STARTTLS went through
C7_Witness ==
  /\ proto = "smtp"
  /\ dec.mode = "t1"
  /\ ~implicit_tls
  /\ handshake = "ok"
  /\ tls_active
  /\ pc = "loop"

\* C8: a connection that arrives TLS-wrapped while the resolved mode is one of t1..t4 is
\* dropped at accept: exactly one event, disconnect with reason implicit_tls_blocked, no
\* greeting, no line read; every other connection gets the connect event, then the
\* greeting, and the command loop starts.
C8_ConnectStep ==
  /\ ConnectStep =>
       IF implicit_tls /\ dec'.mode \in {"t1", "t2", "t3", "t4"}
         THEN /\ Len(out') = 1
              /\ IsEvent(out'[1])
              /\ out'[1].event = "disconnect"
              /\ out'[1].reason = "implicit_tls_blocked"
              /\ line' = Unread
              /\ pc' = "done"
         ELSE /\ Len(out') = 2
              /\ IsEvent(out'[1])
              /\ out'[1].event = "connect"
              /\ "reason" \notin DOMAIN out'[1]
              /\ out'[2] = IF proto = "smtp"
                             THEN [tag |-> <<>>, text |-> <<"220 selftest ESMTP">>]
                             ELSE [tag |-> <<"*">>,
                                   text |-> <<"OK selftest IMAP4rev1 Service Ready">>]
              /\ pc' = "loop"
  /\ Returned

C8_ImplicitTlsBlocked == [][C8_ConnectStep]_vars

C8_Witness ==
  /\ proto = "imap"
  /\ implicit_tls
  /\ pc = "done"
  /\ line = Unread
  /\ Len(out) = 1
  /\ out[1].event = "disconnect"

\* the session a username of the model encodes
SessionOf(u) == IF u = U_A THEN S_A ELSE IF u = U_B THEN S_B ELSE None

\* the events of an authentication attempt as user u: session_mismatch first, if and only
\* if the session of the mode and the session of u are both there and differ, then kind
MismatchRule(evs, u, kind) ==
  LET differ == dec.session # None /\ SessionOf(u) # None /\ dec.session # SessionOf(u)
  IN  IF differ
        THEN /\ Len(evs) >= 2
             /\ evs[1].event = "session_mismatch"
             /\ evs[1].override_session = dec.session
             /\ evs[1].username_session = SessionOf(u)
             /\ evs[2].event = kind
             /\ \A i \in 2..Len(evs) : evs[i].event # "session_mismatch"
        ELSE /\ Len(evs) >= 1
             /\ evs[1].event = kind
             /\ \A i \in 1..Len(evs) : evs[i].event # "session_mismatch"

\* C9: an authentication attempt (AUTH PLAIN, AUTH LOGIN, IMAP LOGIN) whose username
\* encodes a session other than the session of the resolved mode logs session_mismatch, and
\* logs it before the event of the attempt; when the sessions are equal, or one is absent,
\* no session_mismatch is logged.
C9_AuthStep ==
  /\ \A c \in Credentials :
       /\ (SmtpTakes("auth") /\ line' = AuthPlainLine(c[1], c[2])) =>
            MismatchRule(emitted', c[1], "auth_command")
       /\ (proto = "smtp" /\ pc = "auth_plain" /\ line' = B64Encode(PlainMessage(c[1], c[2]))) =>
            MismatchRule(emitted', c[1], "auth_command")
       /\ (ImapTakes("login") /\ line' = ImapLoginLine(c[1], c[2])) =>
            MismatchRule(emitted', c[1], "login_command")
  /\ \A u \in Usernames :
       (SmtpTakes("auth_login_password") /\ pending_auth_login_username = u) =>
         MismatchRule(emitted', u, "auth_login")

C9_SessionMismatchFirst == [][C9_AuthStep]_vars

C9_Witness ==
  /\ proto = "imap"
  /\ Len(emitted) = 2
  /\ emitted[1].event = "session_mismatch"
  /\ emitted[2].event = "login_command"

\* the AUTH lines that complete an attempt in one step
AuthLines ==
  {AUTH, AUTH \o <<" ","X">>} \cup {AuthPlainLine(c[1], c[2]) : c \in Credentials}

\* C10: every authentication attempt the client completes is answered with the success
\* reply and no other reply, whatever it carries: AUTH PLAIN with initial response or
\* continuation line, AUTH LOGIN after its second line, AUTH with another or no mechanism
\* (235), IMAP LOGIN (tagged OK).
C10_AuthReplyStep ==
  /\ (SmtpTakes("auth") /\ line' \in AuthLines) =>
       sent' = <<[tag |-> <<>>, text |-> <<"235 2.7.0 Authentication successful">>]>>
  /\ (proto = "smtp" /\ pc = "auth_plain" /\ line' # None /\ pc' # "auth_plain") =>
       sent' = <<[tag |-> <<>>, text |-> <<"235 2.7.0 Authentication successful">>]>>
  /\ SmtpTakes("auth_login_password") =>
       sent' = <<[tag |-> <<>>, text |-> <<"235 2.7.0 Authentication successful">>]>>
  /\ ImapTakes("login") =>
       sent' = <<[tag |-> Tag, text |-> <<"OK Logged in">>]>>

C10_NeverRejects == [][C10_AuthReplyStep]_vars

C10_Witness ==
  /\ proto = "smtp"
  /\ line = AUTH \o <<" ","X">>
  /\ Len(sent) = 1
  /\ sent[1].text = <<"235 2.7.0 Authentication successful">>
  /\ Len(emitted) = 1
  /\ emitted[1].username = None

\* the success reply of the SMTP handler to an authentication
AuthOkReply == [tag |-> <<>>, text |-> <<"235 2.7.0 Authentication successful">>]

\* C11: on an SMTP connection in mode t4 with TLS active, a step that sends the success
\* reply to an authentication (AUTH PLAIN with initial response or continuation line, AUTH
\* with another mechanism, the second line of AUTH LOGIN) ends the worker: it returns, and
\* a worker that has returned processes no further command.
C11_AuthDropStep ==
  /\ (/\ proto = "smtp"
      /\ dec.mode = "t4"
      /\ tls_active
      /\ pc \in {"loop", "auth_plain"}
      /\ \E i \in 1..Len(sent') : sent'[i] = AuthOkReply) => pc' = "done"
  /\ Returned

C19_NoLineStep ==
  /\ (pc \in {"loop", "auth_plain"} /\ line' = None) =>
       /\ pc' = "done"
       /\ Len(emitted') = 1
       /\ emitted'[1].event = "disconnect"
       /\ sent' = <<>>
  /\ Returned

C19_NoLineDisconnects == [][C19_NoLineStep]_vars

C19_Witness ==
  /\ proto = "smtp"
  /\ line = None
  /\ pc = "done"
  /\ out = <<>>

\* C20: when wrap_socket fails after the ready reply of STARTTLS, for SMTP and for IMAP
\* the worker logs an event of the failure (a disconnect event or a starttls event with a
\* failure result) after it, and returns: no retry, no further command.
C20_HandshakeFailureStep ==
  /\ (HandshakeStep /\ handshake' = "failed") =>
       /\ pc' = "done"
       /\ ~tls_active'
       /\ Len(emitted') >= 1
       /\ \/ emitted'[1].event = "disconnect"
          \/ emitted'[1].event = "starttls" /\ emitted'[1].result = "wrap_failed"
       /\ sent' = <<>>
  /\ Returned

C20_HandshakeFailureLogged == [][C20_HandshakeFailureStep]_vars

C20_Witness ==
  /\ proto = "imap"
  /\ handshake = "failed"
  /\ pc = "done"
  /\ out = <<>>

\* the step is a call of _decide_mode by worker p, from its load to its return, its raise
\* or its call of _save_mode_store
ResolveStep(p) ==
  /\ procs[p].pc = "idle"
  /\ now' = now
  /\ procs'[p].pc = "save_open" \/ ret'.proc = p

\* the identity that call resolves
ResolvedIp(p) == IF procs'[p].pc = "save_open" THEN procs'[p].ip ELSE ret'.ip

\* the decision that call has made
Resolved(p) == IF procs'[p].pc = "save_open" THEN procs'[p].res ELSE ret'.res

\* the step is the os.replace of a save by process p that succeeds
ReplaceStep(p) == procs[p].pc = "save_replace" /\ ret'.proc = p /\ ret'.how = "returned"

\* the overrides of the store file, none when there is no file
OverridesOf(s) ==
  IF s.kind = "json" /\ "overrides" \in DOMAIN s.data THEN s.data.overrides ELSE <<>>

\* override o has expired at time t
Lapsed(o, t) == o.expires # 0 /\ o.expires < t

\* the positions in ovs of the overrides for identity x that have not expired at time t
LiveFor(ovs, x, t) == {i \in 1..Len(ovs) : ovs[i].ip = x /\ ~Lapsed(ovs[i], t)}

Least(S) == CHOOSE i \in S : \A j \in S : i <= j

Greatest(S) == CHOOSE i \in S : \A j \in S : j <= i

\* the decision is the default of the store file s
IsDefaultOf(d, s) ==
  /\ d.source = <<"default">>
  /\ d.session = None
  /\ s.kind = "missing" => d.mode = "baseline"
  /\ (s.kind = "json" /\ "default_mode" \in DOMAIN s.data) => d.mode = s.data.default_mode

\* the decision is the one override o gives for identity x
IsOverrideOf(d, o, x) ==
  /\ d.source = <<"override", x>>
  /\ "mode" \in DOMAIN o => d.mode = o.mode
  /\ d.session = (IF "session" \in DOMAIN o THEN o.session ELSE None)

\* C12: a resolution for identity x that loads the store decides by the first override, in
\* the order of the file, whose ip is x and which has not expired: its mode and session,
\* with source override:x; with no such override it decides the default_mode of the store,
\* with source default and no session. Expired overrides for x are passed over and never
\* decide. The decision the call returns after a save is the one it made at the load.
C12_ResolveStep ==
  \A p \in Workers :
    /\ (ResolveStep(p) /\ Loads(store)) =>
         LET ovs == OverridesOf(store)
             hits == LiveFor(ovs, ResolvedIp(p), now)
         IN  IF hits = {}
               THEN IsDefaultOf(Resolved(p), store)
               ELSE IsOverrideOf(Resolved(p), ovs[Least(hits)], ResolvedIp(p))
    /\ ReplaceStep(p) => ret'.res = procs[p].res /\ ret'.ip = procs[p].ip

C12_FirstLiveMatchDecides == [][C12_ResolveStep]_vars

C12_Witness ==
  \E p \in Workers :
    /\ procs[p].pc = "save_open"
    /\ procs[p].ip = IP_1
    /\ procs[p].res.mode = "t4"
    /\ procs[p].res.source = <<"override", IP_1>>
    /\ Len(OverridesOf(store)) = 2
    /\ OverridesOf(store)[1].ip = IP_1
    /\ Lapsed(OverridesOf(store)[1], now)

\* the processes that write overrides
Writers == {"set_mode", "web"}

\* C13: a write of an override for identity x (set_mode --ip x, /start of the web layer)
\* with a ttl of at least 1 prepares an override with ip x, the mode asked for and an
\* expiry later than the time it reads, and, when its own text is the file it renames,
\* leaves the store with that override as the only one for x. A resolution for x that
\* follows such a write with nothing but the passing of time in between, on a store that
\* holds the written override, decides the written mode (source override:x) before the
\* expiry, and the default of the store after the expiry.
C13_RoundTripStep ==
  /\ \A w \in Writers :
       /\ (procs[w].pc = "idle" /\ procs'[w].pc = "save_open" /\ procs'[w].ip # "") =>
            /\ procs'[w].res.ip = procs'[w].ip
            /\ procs'[w].res.mode \in WrittenModes
            /\ procs'[w].res.expires > now
       /\ (ReplaceStep(w) /\ procs[w].ip # "" /\ tmp = JsonStore(procs[w].data)) =>
            /\ \E i \in 1..Len(OverridesOf(store')) : OverridesOf(store')[i] = procs[w].res
            /\ \A i \in 1..Len(OverridesOf(store')) :
                 OverridesOf(store')[i].ip = procs[w].ip => OverridesOf(store')[i] = procs[w].res
            /\ ret'.res = procs[w].res
  /\ \A p \in Workers :
       (/\ ResolveStep(p)
        /\ ret.proc \in Writers
        /\ ret.how = "returned"
        /\ ret.ip = ResolvedIp(p)
        /\ \E i \in 1..Len(OverridesOf(store)) : OverridesOf(store)[i] = ret.res) =>
         /\ now < ret.res.expires =>
              /\ Resolved(p).mode = ret.res.mode
              /\ Resolved(p).source = <<"override", ret.ip>>
         /\ now > ret.res.expires => IsDefaultOf(Resolved(p), store)

C13_WriteThenResolve == [][C13_RoundTripStep]_vars

C13_Witness ==
  /\ ret.proc \in Workers
  /\ ret.how = "returned"
  /\ ret.ip = IP_1
  /\ ret.res.mode = "t3"
  /\ ret.res.source = <<"override", IP_1>>
  /\ LiveFor(OverridesOf(store), IP_1, now) # {}

\* C14: a resolution for identity x on a store with several overrides for x that have not
\* expired decides by the last of them in the file (writers append, so the last is the
\* most recently written), and a call that loads such a store saves one without the
\* earlier ones.
C14_DuplicateStep ==
  \A p \in Workers :
    (/\ ResolveStep(p)
     /\ Loads(store)
     /\ Cardinality(LiveFor(OverridesOf(store), ResolvedIp(p), now)) > 1) =>
      /\ IsOverrideOf(Resolved(p),
                      OverridesOf(store)[Greatest(LiveFor(OverridesOf(store), ResolvedIp(p), now))],
                      ResolvedIp(p))
      /\ procs'[p].pc = "save_open"
      /\ Cardinality(LiveFor(procs'[p].data.overrides, ResolvedIp(p), now)) = 1

C14_LastWrittenWins == [][C14_DuplicateStep]_vars

C14_Witness ==
  /\ ret.proc \in Workers
  /\ ret.how = "returned"
  /\ ret.ip = IP_1
  /\ ret.res.mode = "t1"
  /\ Cardinality(LiveFor(OverridesOf(store), IP_1, now)) = 2
  /\ OverridesOf(store)[Greatest(LiveFor(OverridesOf(store), IP_1, now))].mode = "t4"

\* C15: no load of the store reads a file that a save has truncated and not yet filled, or
\* that holds bytes of two saves: a load that raises the JSON error has read a file that
\* held no JSON before any save began.
C15_LoadsSeeWholeFiles == ret.how = "json" => store.kind \notin {"empty", "mixed"}

C15_Witness ==
  /\ ret.how = "json"
  /\ ret.proc \in Workers
  /\ store.kind = "empty"
  /\ \E q \in Procs : procs[q].fd = "path"

\* C16: a resolution that loads a store none of whose overrides has expired returns at
\* once and writes nothing: store file and temporary file are as before. A resolution that
\* saves, saves the loaded store with exactly the expired overrides taken out, so that a
\* second resolution at the same time finds nothing to take out and writes nothing.
C16_PruneStep ==
  \A p \in Workers :
    (ResolveStep(p) /\ Loads(store)) =>
      LET ovs == OverridesOf(store)
          live == {i \in 1..Len(ovs) : ~Lapsed(ovs[i], now)}
      IN  /\ live = 1..Len(ovs) =>
               /\ ret'.proc = p /\ ret'.how = "returned"
               /\ UNCHANGED <<store, tmp, procs>>
          /\ live # 1..Len(ovs) =>
               /\ procs'[p].pc = "save_open"
               /\ procs'[p].data.overrides = SelectSeq(ovs, LAMBDA o : ~Lapsed(o, now))
               /\ \A k \in DOMAIN store.data \ {"overrides"} :
                    procs'[p].data[k] = store.data[k]
               /\ \A ip \in {IP_1, IP_2} :
                    decide_mode(JsonStore(procs'[p].data), ip, now).store
                      = JsonStore(procs'[p].data)

C16_PruneIdempotent == [][C16_PruneStep]_vars

C16_Witness ==
  /\ ret.proc \in Workers
  /\ ret.how = "returned"
  /\ ret.res.source = <<"override", IP_1>>
  /\ store.kind = "json"
  /\ Len(OverridesOf(store)) = 1
  /\ \A i \in 1..Len(OverridesOf(store)) : ~Lapsed(OverridesOf(store)[i], now)
  /\ tmp.kind = "missing"
  /\ \A q \in Procs : procs[q].pc = "idle"
  /\ now = 2

\* C17: a resolution by a connection worker never ends with the error of its save: when
\* os.replace fails the worker still returns its decision.
C17_SaveFailureStillDecides == ~(ret.proc \in Workers /\ ret.how = "replace")

C17_Witness ==
  /\ ret.proc = "worker1"
  /\ ret.how = "replace"
  /\ ret.res = Unresolved
  /\ tmp.kind = "missing"

\* the store data has its default_mode and every override has its mode
WellFormed(data) ==
  /\ "default_mode" \in DOMAIN data
  /\ \A i \in 1..Len(Get(data, "overrides", <<>>)) : "mode" \in DOMAIN data.overrides[i]

\* C18: a resolution on a missing store file returns baseline, source default, without an
\* error; a resolution on a store file that is present and malformed (no JSON, no
\* default_mode, an override without mode) raises and returns no decision.
C18_StoreErrorStep ==
  \A p \in Workers :
    ResolveStep(p) =>
      /\ store.kind = "missing" =>
           /\ ret'.how = "returned"
           /\ ret'.res = [mode |-> "baseline", source |-> <<"default">>, session |-> None]
      /\ (store.kind # "missing" /\ (store.kind # "json" \/ ~WellFormed(store.data))) =>
           /\ ret'.proc = p
           /\ ret'.how = "json"

C18_MalformedStoreFails == [][C18_StoreErrorStep]_vars

C18_Witness ==
  /\ ret.proc \in Workers
  /\ ret.how = "returned"
  /\ ret.res.mode = "baseline"
  /\ ret.res.source = <<"override", IP_1>>
  /\ store.kind = "json"
  /\ ~WellFormed(store.data)

\* the session code of a username as the rule of the interface states it: the part before
\* the first "@" (the whole username without one) is "test-" and then 6 to 64 ASCII letters
\* or digits; any other username has none
HeadOf(u) ==
  IF \E i \in 1..Len(u) : u[i] = "@"
    THEN SubSeq(u, 1, (CHOOSE k \in 1..Len(u) : u[k] = "@" /\ \A j \in 1..(k - 1) : u[j] # "@") - 1)
    ELSE u

SessionCodeOf(u) ==
  IF u = None THEN None
  ELSE LET head == HeadOf(u)
           code == SubSeq(head, Len(TestPrefix) + 1, Len(head))
       IN  IF /\ Len(head) >= Len(TestPrefix)
              /\ SubSeq(head, 1, Len(TestPrefix)) = TestPrefix
              /\ Len(code) \in SessionMinLen..SessionMaxLen
              /\ \A i \in 1..Len(code) : code[i] \in Alnum
             THEN code
             ELSE None

AuthEventKinds == {"auth_command", "auth_login", "login_command"}

\* C21: the event of every authentication attempt (AUTH PLAIN, AUTH LOGIN, IMAP LOGIN)
\* carries as session code exactly the code of its username when the username is
\* test-<code> or test-<code>@<anything> with a code of 6 to 64 letters or digits, and no
\* session code for every other username.
C21_SessionCodeExtracted ==
  \A i \in 1..Len(emitted) :
    emitted[i].event \in AuthEventKinds =>
      /\ emitted[i].username_session = SessionCodeOf(emitted[i].username)
      /\ emitted[i].session = emitted[i].username_session

C21_Witness ==
  /\ proto = "smtp"
  /\ Len(emitted) = 1
  /\ emitted[1].event = "auth_command"
  /\ emitted[1].username = U_Newline
  /\ emitted[1].username_session = S_A

\* every element of the sequence s is an element of the sequence t
Within(s, t) == \A i \in 1..Len(s) : \E j \in 1..Len(t) : t[j] = s[i]

\* C22: the save of a resolution (the os.replace of a connection worker that renames the
\* text it wrote) takes from the store nothing but expired overrides: every override of the store after it was an
\* override of the store before it, field by field, and every override of the store before
\* it that has not expired is in the store after it; also when set_mode or the web layer
\* has rewritten the store since the worker loaded it.
C22_EngineSaveStep ==
  \A p \in Workers :
    (ReplaceStep(p) /\ tmp = JsonStore(procs[p].data)) =>
      /\ Within(OverridesOf(store'), OverridesOf(store))
      /\ Within(SelectSeq(OverridesOf(store), LAMBDA o : ~Lapsed(o, now)), OverridesOf(store'))

C22_EngineOnlyPrunes == [][C22_EngineSaveStep]_vars

C22_Witness ==
  \E p \in Workers :
    /\ procs[p].pc = "save_replace"
    /\ tmp = JsonStore(procs[p].data)
    /\ \E i \in 1..Len(OverridesOf(store)) :
         /\ OverridesOf(store)[i].mode \in WrittenModes
         /\ ~Lapsed(OverridesOf(store)[i], now)
         /\ ~Within(<<OverridesOf(store)[i]>>, procs[p].data.overrides)

\* C23: with connection workers alone pruning the store side by side, a save (the
\* os.replace of a worker that renames the text it wrote) puts no expired override into a
\* store that did not hold it, and a resolution that decides by an override decides by one
\* of the store it loaded that has not expired.
C23_ConcurrentPruneStep ==
  \A p \in Workers :
    /\ (ReplaceStep(p) /\ tmp = JsonStore(procs[p].data)) =>
         Within(SelectSeq(OverridesOf(store'), LAMBDA o : Lapsed(o, now)), OverridesOf(store))
    /\ (ResolveStep(p) /\ Loads(store) /\ Resolved(p).source # <<"default">>) =>
         \E i \in LiveFor(OverridesOf(store), ResolvedIp(p), now) :
           IsOverrideOf(Resolved(p), OverridesOf(store)[i], ResolvedIp(p))

C23_NoResurrection == [][C23_ConcurrentPruneStep]_vars

C23_Witness ==
  \E p \in Workers :
    /\ procs[p].pc = "save_replace"
    /\ tmp = JsonStore(procs[p].data)
    /\ store.kind = "json"
    /\ \E i \in 1..Len(procs[p].data.overrides) :
         /\ Lapsed(procs[p].data.overrides[i], now)
         /\ ~Within(<<procs[p].data.overrides[i]>>, OverridesOf(store))

\* the positions in ovs of the overrides for identity x
EntriesFor(ovs, x) == {i \in 1..Len(ovs) : Get(ovs[i], "ip", "") = x}

\* C24: a write of an override for identity x (set_mode --ip x, /start, /api/extend, the
\* start of a guided run) whose text is the file it renames leaves the store with exactly
\* one override for x: the one written, with the mode asked for and an expiry not before
\* the time of the rename unless time has passed the ttl; a resolution for x on that store,
\* while the override has not expired, decides the written mode.
C24_WriteStep ==
  \A w \in Writers :
    (ReplaceStep(w) /\ procs[w].ip # "" /\ tmp = JsonStore(procs[w].data)) =>
      LET ovs == OverridesOf(store')
          mine == EntriesFor(ovs, procs[w].ip)
      IN  /\ Cardinality(mine) = 1
          /\ \A i \in mine :
               /\ \A k \in DOMAIN procs[w].res : ovs[i][k] = procs[w].res[k]
               /\ ovs[i].mode \in WrittenModes
               /\ ~Lapsed(ovs[i], now) =>
                    /\ decide_mode(store', procs[w].ip, now).decision.mode = ovs[i].mode
                    /\ decide_mode(store', procs[w].ip, now).decision.source
                         = <<"override", procs[w].ip>>

C24_OneOverridePerIdentity == [][C24_WriteStep]_vars

C24_Witness ==
  /\ ret.proc = "web"
  /\ ret.how = "returned"
  /\ ret.res = [ip |-> IP_1, mode |-> "t3"]
  /\ Cardinality(EntriesFor(OverridesOf(store), IP_1)) = 1
  /\ \A i \in EntriesFor(OverridesOf(store), IP_1) :
       /\ OverridesOf(store)[i].mode = "t3"
       /\ OverridesOf(store)[i].session = S_B
       /\ OverridesOf(store)[i].expires = MaxTime + 1 + 60

\* C25: when the handshake of a STARTTLS upgrade succeeds, SMTP or IMAP, the connection
\* reads from a new, empty buffer: every line received in plaintext after the STARTTLS
\* line and still in io.buf is discarded, and the connection counts as TLS-protected.
C25_UpgradeStep ==
  (HandshakeStep /\ handshake' = "ok") => (buf' = <<>> /\ tls_active')

C25_BufferDiscardedOnUpgrade == [][C25_UpgradeStep]_vars

C25_Witness ==
  /\ proto = "smtp"
  /\ line = starttls
  /\ handshake = "ok"
  /\ tls_active
  /\ buf = <<>>
  /\ pc = "loop"

\* C26: RCPT TO gets 250 and counts one more recipient only when the sender is known, else
\* 503; DATA gets 354 and enters DATA state only when the sender is known and at least one
\* recipient was counted, else 503. A 503 leaves sender-known, recipient count and DATA
\* state as they were and the loop goes on. The sender becomes known by MAIL FROM only and
\* unknown by RSET only, so "known" means a MAIL FROM since the connection began or since
\* the last RSET.
C26_SequencingStep ==
  /\ SmtpTakes("rcpt_to") =>
       /\ IF mail_from_set
            THEN /\ out' = <<Reply("250 2.1.5 OK")>>
                 /\ rcpt_count' = rcpt_count + 1
            ELSE /\ out' = <<Reply("503 5.5.1 Bad sequence of commands")>>
                 /\ rcpt_count' = rcpt_count
       /\ UNCHANGED <<mail_from_set, in_data, data_bytes>>
       /\ pc' = "loop"
  /\ SmtpTakes("data") =>
       /\ IF mail_from_set /\ rcpt_count >= 1
            THEN /\ out' = <<Reply("354 End data with <CR><LF>.<CR><LF>")>>
                 /\ in_data'
            ELSE /\ out' = <<Reply("503 5.5.1 Bad sequence of commands")>>
                 /\ ~in_data'
                 /\ data_bytes' = data_bytes
       /\ UNCHANGED <<mail_from_set, rcpt_count>>
       /\ pc' = "loop"
  /\ (~mail_from_set /\ mail_from_set') => SmtpTakes("mail_from")
  /\ (mail_from_set /\ ~mail_from_set') => SmtpTakes("rset")
  /\ pc = "accept" => ~mail_from_set'

C26_SmtpSequencing == [][C26_SequencingStep]_vars

C26_Witness ==
  /\ proto = "smtp"
  /\ pc = "loop"
  /\ line = DATA
  /\ out = <<Reply("503 5.5.1 Bad sequence of commands")>>
  /\ mail_from_set
  /\ rcpt_count = 0
  /\ ~in_data

\* C27: in DATA state a line other than a lone "." gets no reply and no event, is not
\* taken as a command whatever it says, and only adds its length plus 2 to the byte count;
\* a lone "." ends DATA state with one data_end event whose bytes is the count so far, the
\* reply 250, the count back at 0, and the worker back in its command loop.
C27_DataStep ==
  (proto = "smtp" /\ pc = "loop" /\ in_data /\ line' # None) =>
    /\ IF line' = <<".">>
         THEN /\ Len(out') = 2
              /\ IsEvent(out'[1])
              /\ out'[1].event = "data_end"
              /\ out'[1].bytes = data_bytes
              /\ out'[2] = Reply("250 2.0.0 OK")
              /\ ~in_data'
              /\ data_bytes' = 0
         ELSE /\ out' = <<>>
              /\ in_data'
              /\ data_bytes' = data_bytes + ByteLen(line') + 2
    /\ pc' = "loop"
    /\ handshake' = "none"
    /\ UNCHANGED <<tls_active, mail_from_set, rcpt_count, pending_auth_login,
                   pending_auth_login_username>>

C27_DataState == [][C27_DataStep]_vars

C27_Witness ==
  /\ proto = "smtp"
  /\ pc = "loop"
  /\ in_data
  /\ line = STARTTLS
  /\ data_bytes = 10
  /\ out = <<>>
  /\ ~tls_active

\* the events of kind k among the entries of a log-and-socket trace
EventsOfKind(o, k) == {i \in 1..Len(o) : IsEvent(o[i]) /\ o[i].event = k}

\* C28: "AUTH LOGIN" gets the 334 username prompt; the next line, whatever it says, is
\* taken as the username and gets the 334 password prompt; the line after that, whatever
\* it says, is taken as the password: exactly one auth_login event with the username of
\* the first line, then 235, and the worker is back in its command loop with no
\* authentication pending.
C28_AuthLoginStep ==
  /\ (SmtpTakes("auth") /\ line' = AUTH \o Sp \o LOGIN) =>
       /\ out' = <<Reply("334 VXNlcm5hbWU6")>>
       /\ pending_auth_login'
       /\ pending_auth_login_username' = None
       /\ pc' = "loop"
  /\ (proto = "smtp" /\ pc = "loop" /\ ~in_data /\ pending_auth_login /\ line' # None) =>
       /\ IF pending_auth_login_username = None
            THEN LET txt == b64decode_to_text(Strip(line'))
                 IN  /\ out' = <<Reply("334 UGFzc3dvcmQ6")>>
                     /\ pending_auth_login'
                     /\ pending_auth_login_username' = IF txt = None THEN <<>> ELSE txt
            ELSE /\ Cardinality(EventsOfKind(out', "auth_login")) = 1
                 /\ \A i \in EventsOfKind(out', "auth_login") :
                      out'[i].username = pending_auth_login_username
                 /\ \A i \in 1..Len(out') :
                      IsEvent(out'[i]) => out'[i].event \in {"auth_login", "session_mismatch"}
                 /\ out'[Len(out')] = Reply("235 2.7.0 Authentication successful")
                 /\ ~pending_auth_login'
                 /\ pending_auth_login_username' = None
       /\ pc' = "loop"
       /\ handshake' = "none"
       /\ UNCHANGED <<tls_active, mail_from_set, rcpt_count, in_data, data_bytes>>

C28_AuthLogin == [][C28_AuthLoginStep]_vars

C28_Witness ==
  /\ proto = "smtp"
  /\ pc = "loop"
  /\ line = QUIT
  /\ ~pending_auth_login
  /\ Len(out) = 2
  /\ IsEvent(out[1])
  /\ out[1].event = "auth_login"
  /\ out[1].username = <<Junk, Junk, Junk>>
  /\ out[2] = Reply("235 2.7.0 Authentication successful")

\* the one event of an authentication attempt that parsed no username, and the 235
NoUsernameLogged(o, kind, username) ==
  /\ Len(o) = 2
  /\ IsEvent(o[1])
  /\ o[1].event = kind
  /\ o[1].username = username
  /\ o[1].username_session = None
  /\ o[1].session = None
  /\ o[2] = Reply("235 2.7.0 Authentication successful")

\* C29: when the base64 of an AUTH PLAIN initial response, of an AUTH PLAIN continuation
\* line or of an AUTH LOGIN username line does not decode, no username and no session code
\* come out of it: the attempt's event is logged all the same, with no username (null for
\* AUTH PLAIN, the empty string for AUTH LOGIN) and no session, 235 is sent, and the worker
\* goes on in its command loop.
C29_UndecodableStep ==
  /\ (/\ SmtpTakes("auth")
      /\ Len(Split(line')) >= 3
      /\ Upper(Split(line')[2]) = PLAIN
      /\ b64decode_to_text(Split(line')[3]) = None) =>
       /\ NoUsernameLogged(out', "auth_command", None)
       /\ pc' = "loop"
  /\ (/\ proto = "smtp"
      /\ pc = "auth_plain"
      /\ line' # None
      /\ b64decode_to_text(Strip(line')) = None) =>
       /\ NoUsernameLogged(out', "auth_command", None)
       /\ pc' = "loop"
  /\ (/\ SmtpTakes("auth_login_username")
      /\ b64decode_to_text(Strip(line')) = None) =>
       /\ pending_auth_login_username' = <<>>
       /\ out' = <<Reply("334 UGFzc3dvcmQ6")>>
       /\ pc' = "loop"
  /\ (/\ SmtpTakes("auth_login_password")
      /\ pending_auth_login_username = <<>>) =>
       /\ NoUsernameLogged(out', "auth_login", <<>>)
       /\ pc' = "loop"

C29_UndecodableBase64 == [][C29_UndecodableStep]_vars

C29_Witness ==
  /\ proto = "smtp"
  /\ pc = "loop"
  /\ line = AUTH \o Sp \o PLAIN \o <<" ","h","i">>
  /\ NoUsernameLogged(out, "auth_command", None)

\* the step reads a STARTTLS command on a connection that has TLS
AlreadyTlsStep ==
  /\ pc = "loop"
  /\ tls_active
  /\ line' # None
  /\ IF proto = "smtp"
       THEN ~in_data /\ ~pending_auth_login /\ SmtpCommand(line') = "starttls"
       ELSE ImapCommandOf(line') = "starttls"

\* C30: STARTTLS on a connection that has TLS, in either protocol and any mode, logs
\* already_tls, gets the negative reply (454 / tagged BAD) and changes nothing: TLS stays,
\* no handshake is started, the lines still in the buffer stay there, sender-known,
\* recipient count, DATA state and pending authentication are as before, and the worker
\* goes on in its loop.
C30_AlreadyTlsFrame ==
  AlreadyTlsStep =>
    /\ Len(out') = 2
    /\ IsEvent(out'[1])
    /\ out'[1].event = "starttls"
    /\ out'[1].result = "already_tls"
    /\ out'[2] = [tag |-> IF proto = "smtp" THEN <<>> ELSE ImapTag(line'),
                  text |-> IF proto = "smtp"
                             THEN <<"454 TLS not available due to temporary reason">>
                             ELSE <<"BAD STARTTLS not available">>]
    /\ pc' = "loop"
    /\ buf # <<>> => buf' = Tail(buf)
    /\ line' \in {starttls, Tag \o Sp \o starttls} =>
         (Len(buf') = 1 /\ buf'[1] \in SmtpPipelined \cup ImapPipelined)
    /\ handshake' = "none"
    /\ UNCHANGED <<tls_active, mail_from_set, rcpt_count, in_data, data_bytes,
                   pending_auth_login, pending_auth_login_username, dec>>

C30_StartTlsUnderTls == [][C30_AlreadyTlsFrame]_vars

C30_Witness ==
  /\ proto = "smtp"
  /\ pc = "loop"
  /\ tls_active
  /\ line = starttls
  /\ buf = <<MAIL_FROM \o <<"<","a",">">>>>
  /\ Len(out) = 2
  /\ IsEvent(out[1])
  /\ out[1].event = "starttls"
  /\ out[1].result = "already_tls"
  /\ mail_from_set

\* the fields that every ProtocolEvent has
CommonFields ==
  {"ts", "proto", "client_ip", "mode", "mode_source", "tls", "server_port", "event"}

\* C31: every event that a worker logs, of every kind, has all the common fields: ts,
\* proto, client_ip, mode, mode_source, tls, server_port and event.
C31_CommonFields ==
  \A i \in 1..Len(emitted) : CommonFields \subseteq DOMAIN emitted[i]

C31_Witness ==
  /\ proto = "smtp"
  /\ Len(emitted) = 1
  /\ emitted[1].event = "data_end"
  /\ emitted[1].bytes = 4
  /\ "server_port" \notin DOMAIN emitted[1]

\* ------------------------------------------------------------------ the event log
\* _log_event with a log path: the file is opened for appending, the line goes into the
\* buffer of the file object, and leaving the with block flushes it with one write.

MaxEmits == 3

\* the line json.dumps makes of the n-th event of worker w
LogLine(w, n) == [worker |-> w, n |-> n]

\* A faulty write: at the position the file had when it was opened.
WriteAtOpenOffset(file, at, l) == SubSeq(file, 1, at) \o <<l>>

\* the write of a file opened with "a": at the end of the file, whatever the position was
append_line(file, at, l) == file \o <<l>>

\* log_path.open("a", encoding="utf-8")
LogOpen(w) ==
  /\ emitter[w].pc = "idle"
  /\ emitter[w].n < MaxEmits
  /\ emitter' = [emitter EXCEPT ![w].pc = "open", ![w].at = Len(log)]
  /\ UNCHANGED log

\* f.write(line + "\n")
LogWrite(w) ==
  /\ emitter[w].pc = "open"
  /\ emitter' = [emitter EXCEPT ![w].pc = "written"]
  /\ UNCHANGED log

\* the end of the with block; _log_event returns
LogClose(w) ==
  /\ emitter[w].pc = "written"
  /\ log' = append_line(log, emitter[w].at, LogLine(w, emitter[w].n + 1))
  /\ emitter' = [emitter EXCEPT ![w].pc = "idle", ![w].n = emitter[w].n + 1]

LogFrame == UNCHANGED <<now, store, tmp, procs, ret, HandlerVars, run, reqs, peer, reply>>

EmitOpen == LogFrame /\ \E w \in Workers : LogOpen(w)

EmitWrite == LogFrame /\ \E w \in Workers : LogWrite(w)

EmitClose == LogFrame /\ \E w \in Workers : LogClose(w)

LogNext ==
  \/ EmitOpen
  \/ EmitWrite
  \/ EmitClose

LogSpec == StoreInit /\ [][LogNext]_vars

\* s is the beginning of t
IsPrefix(s, t) == Len(s) <= Len(t) /\ SubSeq(t, 1, Len(s)) = s

\* C32: with several workers inside _log_event at once the log only grows, by whole
\* lines: a step changes the log only when a worker returns from _log_event, and then it
\* adds exactly that worker's line at the end; no line already in the log is changed or
\* removed; and the lines of one worker are in the log in the order it emitted them.
C32_LogStep ==
  /\ IsPrefix(log, log')
  /\ log' # log =>
       \E w \in Workers :
         /\ emitter[w].pc = "written"
         /\ emitter'[w].pc = "idle"
         /\ emitter'[w].n = emitter[w].n + 1
         /\ log' = Append(log, LogLine(w, emitter'[w].n))
  /\ \A w \in Workers :
       emitter'[w].n # emitter[w].n => (Len(log') = Len(log) + 1 /\ log'[Len(log')].worker = w)
  /\ \A i, j \in 1..Len(log') :
       (i < j /\ log'[i].worker = log'[j].worker) => log'[i].n < log'[j].n

C32_AppendOnlyLog == [][C32_LogStep]_vars

C32_Witness ==
  /\ Len(log) = 3
  /\ log[1] = LogLine("worker1", 1)
  /\ log[2] = LogLine("worker2", 1)
  /\ log[3] = LogLine("worker1", 2)
  /\ emitter["worker2"].pc = "written"
  /\ emitter["worker2"].at = 2
  /\ emitter["worker1"].pc = "open"

\* ------------------------------------------------------------------ the store changes under a connection
\* While a connection is open, time passes and set_mode runs: its load, its change and the
\* rename of its save, as the worker of the open connection sees them.

LiveModes == {"t1"}

StoreRewritten ==
  /\ pc \in {"loop", "handshake", "auth_plain"}
  /\ Loads(store)
  /\ \E mode \in LiveModes : \E ttl \in Ttls :
       store' = JsonStore(set_mode_main(load_mode_store(store), client_ip, mode, ttl, now))
  /\ store' # store
  /\ UNCHANGED <<now, tmp, procs, ret, ConnVars>>

LiveTick ==
  /\ pc \in {"loop", "handshake", "auth_plain"}
  /\ now < MaxNow
  /\ now' = now + 1
  /\ UNCHANGED <<store, tmp, procs, ret, ConnVars>>

LiveNext ==
  \/ Next
  \/ StoreRewritten
  \/ LiveTick

LiveSpec == Init /\ [][LiveNext]_vars

\* the modes in which a STARTTLS on a plaintext connection is refused, by protocol
RefusingModes == IF proto = "smtp" THEN {"t3"} ELSE {"t1", "t3"}

\* C33: the mode of a connection is resolved once, when its worker starts, and stays: the
\* decision changes at the accept step only, every event carries its mode and mode_source,
\* a worker past its start leaves the store alone, and what STARTTLS, EHLO / CAPABILITY and
\* the steps after an upgrade or an AUTH do follows that decision, whatever the store
\* says by then.
C33_ResolvedOnceStep ==
  /\ pc # "accept" => dec' = dec
  /\ (pc = "accept" /\ pc' # "accept") => dec' = decide_mode(store, client_ip, now).decision
  /\ (pc # "accept" /\ store' # store) => UNCHANGED <<pc, line, out, tls_active>>
  /\ \A i \in 1..Len(emitted') :
       LET e == emitted'[i]
       IN  /\ e.mode = dec'.mode
           /\ e.mode_source = dec'.source
           /\ e.event = "starttls" =>
                /\ e.result = "refused" => dec'.mode \in RefusingModes
                /\ e.result \in {"drop_after_ready", "drop_after_ok"} => dec'.mode = "t2"
                /\ e.result = "ok" => dec'.mode \notin RefusingModes \cup {"t2"}
           /\ e.event \in {"ehlo", "capability"} =>
                e.starttls_advertised = (~e.tls /\ dec'.mode # "t1")
           /\ e.event \in {"disrupt", "drop"} => dec'.mode = "t4"

C33_ModeResolvedOnce == [][C33_ResolvedOnceStep]_vars

C33_Witness ==
  /\ proto = "imap"
  /\ pc = "handshake"
  /\ dec.mode = "baseline"
  /\ decide_mode(store, client_ip, now).decision.mode = "t1"
  /\ Len(emitted) = 1
  /\ emitted[1].event = "starttls"
  /\ emitted[1].result = "ok"
  /\ emitted[1].mode = "baseline"

\* C34: on a connection past its accept, tls_active never goes from true to false, and it
\* goes from false to true only in the step of a handshake that succeeded, which follows
\* a ready reply to a STARTTLS read on the plaintext connection; so a connection upgrades
\* at most once. Every event carries the tls_active of the moment it is logged: false up
\* to and including the starttls ok event, true from the handshake on.
C34_TlsStep ==
  /\ (pc # "accept" /\ tls_active) => tls_active'
  /\ (pc # "accept" /\ ~tls_active /\ tls_active') =>
       /\ pc = "handshake"
       /\ handshake' = "ok"
       /\ IF proto = "smtp" THEN SmtpCommand(line) = "starttls"
                            ELSE ImapCommandOf(line) = "starttls"
  /\ (pc # "handshake" /\ pc' = "handshake") =>
       /\ ~tls_active /\ ~tls_active'
       /\ \E i \in 1..Len(out') : ~IsEvent(out'[i]) /\ out'[i].text \in ReadyTexts
       /\ \A i \in 1..Len(emitted') :
            emitted'[i].event = "starttls" /\ emitted'[i].result = "ok" /\ ~emitted'[i].tls
  /\ pc' = "handshake" => ~tls_active'
  /\ \A i \in 1..Len(emitted') : emitted'[i].tls = tls_active'

C34_TlsMonotone == [][C34_TlsStep]_vars

C34_Witness ==
  /\ ~implicit_tls
  /\ proto = "smtp"
  /\ tls_active
  /\ pc = "loop"
  /\ Len(emitted) = 1
  /\ emitted[1].event = "ehlo"
  /\ emitted[1].tls

\* C35: whenever an SMTP connection is in DATA state the sender is known and at least one
\* recipient was counted, and no AUTH LOGIN is pending.
C35_DataStateInvariant ==
  (proto = "smtp" /\ in_data) => (mail_from_set /\ rcpt_count >= 1 /\ ~pending_auth_login)

C35_Witness ==
  /\ proto = "smtp"
  /\ pc = "loop"
  /\ in_data
  /\ data_bytes = 6
  /\ line = RSET
  /\ mail_from_set
  /\ rcpt_count = 1

\* C36: on the servers main() builds (implicit TLS on 465 for SMTP and on 993 for IMAP) a
\* connection in mode t2, t3 or t4 logs no auth_command, auth_login or login_command event
\* with tls true, and no drop event: in these modes a connection is blocked at accept,
\* or is never upgraded, or is closed right after the handshake.
C36_NoAuthUnderTls ==
  /\ \A i \in 1..Len(emitted) :
       LET e == emitted[i]
       IN  /\ (e.mode \in {"t2", "t3", "t4"} /\ e.event \in AuthEventKinds) => ~e.tls
           /\ e.event # "drop"
  /\ (dec # Unresolved /\ dec.mode \in {"t2", "t3", "t4"} /\ tls_active) => pc = "done"

C36_Witness ==
  /\ proto = "smtp"
  /\ dec.mode = "t4"
  /\ tls_active
  /\ pc = "done"
  /\ handshake = "ok"
  /\ Len(emitted) = 2
  /\ emitted[1].event = "disrupt"

\* ------------------------------------------------------------------ expiry on the three sides
\* One store file, read at one time by a connection worker, by set_mode and by the web
\* layer: each keeps the overrides its own test of "expires" lets through.

ExpiryValues == {0, 1, 2, 3, 4}

\* overrides for two clients, with and without an "expires"
ExpiryOverrides(ip) ==
  {[ip |-> ip, mode |-> "t1", expires |-> e] : e \in ExpiryValues}
  \cup {[ip |-> ip, mode |-> "t1"]}

ExpiryFiles ==
  {JsonStore([default_mode |-> "baseline", overrides |-> <<a, b>>]) :
     a \in ExpiryOverrides(IP_1), b \in ExpiryOverrides(IP_2)}

ExpiryInit ==
  /\ now \in 1..MaxTime
  /\ store \in ExpiryFiles
  /\ tmp = MissingStore
  /\ procs = [p \in Procs |-> Idle]
  /\ ret = NoReturn
  /\ Accepted({[proto |-> "smtp", port |-> 587, implicit_tls |-> FALSE]})

ExpiryFrame == UNCHANGED <<now, store, tmp, procs, ret, HandlerVars, log, emitter, run, reqs, peer>>

\* the overrides _decide_mode keeps
KeptByResolver ==
  /\ "resolver" \notin DOMAIN reply
  /\ reply' = Put(reply, "resolver",
                  load_mode_store(decide_mode(store, IP_1, now).store).overrides)
  /\ ExpiryFrame

\* the overrides set_mode keeps when it sets the default mode
KeptBySetMode ==
  /\ "set_mode" \notin DOMAIN reply
  /\ reply' = Put(reply, "set_mode",
                  set_mode_main(load_mode_store(store), "", "baseline", 1, now).overrides)
  /\ ExpiryFrame

\* the overrides _prune_overrides keeps
KeptByWeb ==
  /\ "web" \notin DOMAIN reply
  /\ reply' = Put(reply, "web", prune_overrides(load_mode_store(store), now).overrides)
  /\ ExpiryFrame

ExpiryNext ==
  \/ KeptByResolver
  \/ KeptBySetMode
  \/ KeptByWeb

ExpirySpec == ExpiryInit /\ [][ExpiryNext]_vars

\* C37: the resolver, set_mode and the web layer keep the same overrides of a store read
\* at the same time, whatever their "expires": equal to the time, 0, or absent.
C37_SameOverridesKept ==
  {"resolver", "set_mode", "web"} \subseteq DOMAIN reply =>
    (reply.resolver = reply.set_mode /\ reply.set_mode = reply.web)

\* the three agree on every override that has a nonzero "expires"
C37_AgreeOnDatedOverrides ==
  ({"resolver", "set_mode", "web"} \subseteq DOMAIN reply
   /\ \A i \in 1..Len(store.data.overrides) :
        Get(store.data.overrides[i], "expires", 0) # 0) =>
    (reply.resolver = reply.set_mode /\ reply.set_mode = reply.web)

C37_Witness ==
  /\ now = 2
  /\ store.data.overrides = <<[ip |-> IP_1, mode |-> "t1"],
                              [ip |-> IP_2, mode |-> "t1", expires |-> 2]>>
  /\ {"resolver", "set_mode", "web"} \subseteq DOMAIN reply
  /\ reply.resolver = store.data.overrides
  /\ reply.set_mode = <<[ip |-> IP_2, mode |-> "t1", expires |-> 2]>>
  /\ reply.web = reply.set_mode

\* ------------------------------------------------------------------ the guided run
\* The requests for one guided run, each handled by a thread of the web layer: the handler
\* loads the store, works on its copy of the run, and saves the store with that copy.

RunSteps == 2

\* the run as /api/guided/run/start saves it
StartedRun == [status |-> "running", step_index |-> 0]

RequestKinds == {"get", "confirm", "skip", "abort"}

\* every milestone of step idx is met by the events read from the log
Ready(events, idx) == \E i \in 1..Len(events) : events[i] = [session |-> idx]

\* _guided_advance_run, as far as the run goes
guided_advance_run(r) ==
  LET idx == r.step_index + 1
  IN  IF idx >= RunSteps
        THEN [r EXCEPT !.step_index = idx, !.status = "completed"]
        ELSE [r EXCEPT !.step_index = idx]

\* what a handler answers and whether it saves, from its copy r of the run
GuidedOutcome(kind, r, events) ==
  IF kind = "get"
    THEN IF r.status \in {"completed", "aborted"}
           THEN [code |-> 200, saves |-> FALSE, run |-> r]
         ELSE IF r.step_index >= RunSteps
           THEN [code |-> 400, saves |-> FALSE, run |-> r]
         ELSE [code |-> 200, saves |-> TRUE, run |-> r]
  ELSE IF kind = "abort"
    THEN IF r.status \notin {"running", "aborted"}
           THEN [code |-> 400, saves |-> FALSE, run |-> r]
           ELSE [code |-> 200, saves |-> TRUE, run |-> [r EXCEPT !.status = "aborted"]]
  ELSE IF r.status # "running" \/ r.step_index >= RunSteps
    THEN [code |-> 400, saves |-> FALSE, run |-> r]
  ELSE IF kind = "confirm" /\ ~Ready(events, r.step_index)
    THEN [code |-> 400, saves |-> FALSE, run |-> r]
  ELSE [code |-> 200, saves |-> TRUE, run |-> guided_advance_run(r)]

GuidedInit ==
  /\ now = 1
  /\ store \in StoreFiles
  /\ tmp = MissingStore
  /\ procs = [p \in Procs |-> Idle]
  /\ ret = NoReturn
  /\ \E l \in {[proto |-> "smtp", port |-> 587, implicit_tls |-> FALSE]} :
       /\ proto = l.proto
       /\ server_port = l.port
       /\ implicit_tls = l.implicit_tls
  /\ client_ip = IP_1
  /\ dec = Unresolved
  /\ pc = "accept"
  /\ tls_active = FALSE
  /\ pending_auth_login = FALSE
  /\ pending_auth_login_username = None
  /\ in_data = FALSE
  /\ data_bytes = 0
  /\ mail_from_set = FALSE
  /\ rcpt_count = 0
  /\ line = Unread
  /\ buf = <<>>
  /\ handshake = "none"
  /\ out = <<>>
  /\ log = <<>>
  /\ emitter = [w \in Workers |-> NotLogging]
  /\ run = StartedRun
  /\ reqs = [t \in Threads |-> NoRequest]
  /\ peer = "sending"
  /\ reply = NoReply

GuidedFrame == UNCHANGED <<now, store, tmp, procs, ret, HandlerVars, emitter, peer>>

\* the mail client does what the current step asks for; the workers log it
ClientActs ==
  /\ run.status = "running"
  /\ run.step_index < RunSteps
  /\ ~Ready(log, run.step_index)
  /\ log' = Append(log, [session |-> run.step_index])
  /\ UNCHANGED <<run, reqs, reply>>
  /\ GuidedFrame

\* data = _load_store(store_path); run = _guided_get_run(data, run_id)
GuidedLoad ==
  /\ \E t \in Threads : \E kind \in RequestKinds :
       /\ reqs[t].pc = "idle"
       /\ reqs' = [reqs EXCEPT ![t] = [pc |-> "loaded", kind |-> kind, run |-> run]]
  /\ UNCHANGED <<log, run, reply>>
  /\ GuidedFrame

\* the rest of the handler: the events are read, the copy is changed and saved, the
\* response is sent
GuidedRespond ==
  /\ \E t \in Threads :
       LET o == GuidedOutcome(reqs[t].kind, reqs[t].run, log)
       IN  /\ reqs[t].pc = "loaded"
           /\ run' = IF o.saves THEN o.run ELSE run
           /\ reply' = [status |-> o.code, kind |-> reqs[t].kind, thread |-> t,
                         had |-> reqs[t].run, has |-> o.run]
           /\ reqs' = [reqs EXCEPT ![t] = NoRequest]
  /\ UNCHANGED log
  /\ GuidedFrame

GuidedNext ==
  \/ ClientActs
  \/ GuidedLoad
  \/ GuidedRespond

GuidedSpec == GuidedInit /\ [][GuidedNext]_vars

\* C38: a guided run only moves forward, however its requests interleave: the step_index
\* of the run never decreases, and a run that is completed or aborted stays so.
C38_RunStep ==
  /\ run'.step_index >= run.step_index
  /\ run.status \in {"completed", "aborted"} => run'.status = run.status

C38_RunMovesForward == [][C38_RunStep]_vars

\* what holds of every request by itself: an accepted confirm or skip adds one to the
\* step_index the handler loaded, confirm is accepted only when the step's milestones
\* are met, and on a run loaded as completed or aborted confirm and skip are rejected
C38_HandlerStep ==
  (reply' # reply /\ reply'.kind \in {"confirm", "skip"}) =>
    /\ reply'.status = 200 =>
         /\ reply'.has.step_index = reply'.had.step_index + 1
         /\ reply'.had.status = "running"
         /\ reply'.kind = "confirm" => Ready(log, reply'.had.step_index)
    /\ reply'.had.status \in {"completed", "aborted"} => reply'.status = 400

C38_EachHandlerAlone == [][C38_HandlerStep]_vars

C38_Witness ==
  /\ run = [status |-> "running", step_index |-> 0]
  /\ "kind" \in DOMAIN reply
  /\ reply.kind = "get"
  /\ reply.status = 200
  /\ Ready(log, 1)

\* ------------------------------------------------------------------ the verdict of a session
\* _summarize_session over the events the workers have logged.

MaxEvents == 2

auth_events == {"auth_command", "auth_login", "login_command"}

\* the protocol whose handler logs events of this kind
ProtoOfKind(kind) == IF kind = "login_command" THEN "imap" ELSE "smtp"

\* an authentication event: it has the username's session as its session, and no
\* override_session
EvAuth(kind, tls, session) ==
  [proto |-> ProtoOfKind(kind), tls |-> tls, event |-> kind, session |-> session,
   username_session |-> session]

\* an event of a connection under an override of session o
EvOfOverride(kind, tls, o) ==
  [proto |-> "smtp", tls |-> tls, event |-> kind, override_session |-> o, session |-> None]

\* the events a log may hold
LoggedEvents ==
  {EvAuth(kind, tls, s) : kind \in auth_events, tls \in BOOLEAN, s \in {None, S_A, S_B}}
  \cup {EvOfOverride("connect", tls, S_A) : tls \in BOOLEAN}
  \cup {EvOfOverride("session_mismatch", FALSE, S_A) @@ [username_session |-> S_B]}

\* _matches_session
matches_session(e, session) ==
  IF Get(e, "session", None) = session
    THEN TRUE
    ELSE Get(e, "session", None) = None /\ Get(e, "override_session", None) = session

\* the number of entries of s for which Test holds
CountOf(s, Test(_)) == Len(SelectSeq(s, Test))

\* _proto_summary
proto_summary(hits, p) ==
  LET OfProto(e) == Get(e, "proto", None) = p
      proto_hits == SelectSeq(hits, OfProto)
      IsConnect(e) == Get(e, "event", None) = "connect"
      IsAuthPlain(e) == Get(e, "event", None) \in auth_events /\ Get(e, "tls", None) = FALSE
      IsAuthTls(e) == Get(e, "event", None) \in auth_events /\ Get(e, "tls", None) = TRUE
  IN  [connects |-> CountOf(proto_hits, IsConnect),
       auth_plain |-> CountOf(proto_hits, IsAuthPlain),
       auth_tls |-> CountOf(proto_hits, IsAuthTls)]

\* A faulty summary: an authentication under TLS settles the verdict first.
SummarizePassFirst(events, session) ==
  LET Matches(e) == matches_session(e, session)
      hits == SelectSeq(events, Matches)
      smtp == proto_summary(hits, "smtp")
      imap == proto_summary(hits, "imap")
      saw_plain == (smtp.auth_plain + imap.auth_plain) > 0
      saw_tls_auth == (smtp.auth_tls + imap.auth_tls) > 0
  IN  [session |-> session,
       verdict |-> IF saw_tls_auth THEN "PASS" ELSE IF saw_plain THEN "FAIL" ELSE "INCONCLUSIVE",
       saw_plain |-> saw_plain,
       saw_tls_auth |-> saw_tls_auth,
       hits |-> Len(hits)]

\* _summarize_session
summarize_session(events, session) ==
  LET Matches(e) == matches_session(e, session)
      hits == SelectSeq(events, Matches)
      smtp == proto_summary(hits, "smtp")
      imap == proto_summary(hits, "imap")
      saw_plain == (smtp.auth_plain + imap.auth_plain) > 0
      saw_tls_auth == (smtp.auth_tls + imap.auth_tls) > 0
  IN  [session |-> session,
       verdict |-> IF saw_plain THEN "FAIL" ELSE IF saw_tls_auth THEN "PASS" ELSE "INCONCLUSIVE",
       saw_plain |-> saw_plain,
       saw_tls_auth |-> saw_tls_auth,
       hits |-> Len(hits)]

SummaryFrame == UNCHANGED <<now, store, tmp, procs, ret, HandlerVars, emitter, run, reqs, peer>>

\* a worker logs an event
EventLogged ==
  /\ Len(log) < MaxEvents
  /\ \E e \in LoggedEvents : log' = Append(log, e)
  /\ UNCHANGED reply
  /\ SummaryFrame

\* the web layer summarizes a session from the events of the log
SessionSummarized ==
  /\ \E session \in {S_A, S_B} : reply' = summarize_session(log, session)
  /\ UNCHANGED log
  /\ SummaryFrame

SummaryNext ==
  \/ EventLogged
  \/ SessionSummarized

SummarySpec == StoreInit /\ [][SummaryNext]_vars

\* the list holds an authentication event with this tls whose username encodes session
AuthenticatedAs(events, session, tls) ==
  \E i \in 1..Len(events) :
    /\ events[i].event \in {"auth_command", "auth_login", "login_command"}
    /\ events[i].username_session = session
    /\ events[i].tls = tls

\* C39: the verdict of a session is FAIL exactly when the events hold an authentication
\* event of the session with tls false, PASS exactly when they hold none of those but one
\* with tls true, and INCONCLUSIVE otherwise; an authentication event belongs to the
\* session its username encodes, whatever the override of its connection.
C39_VerdictStep ==
  (reply' # reply /\ "verdict" \in DOMAIN reply') =>
    LET plain == AuthenticatedAs(log, reply'.session, FALSE)
        secure == AuthenticatedAs(log, reply'.session, TRUE)
    IN  /\ reply'.verdict = "FAIL" <=> plain
        /\ reply'.verdict = "PASS" <=> (~plain /\ secure)
        /\ reply'.verdict = "INCONCLUSIVE" <=> (~plain /\ ~secure)

C39_Verdict == [][C39_VerdictStep]_vars

\* a connection under the override of one session authenticates in the clear with a
\* username of the other session: the other session fails
C39_Witness ==
  /\ "verdict" \in DOMAIN reply
  /\ reply.session = S_B
  /\ reply.verdict = "FAIL"
  /\ Len(log) = 2
  /\ log[1] = EvOfOverride("session_mismatch", FALSE, S_A) @@ [username_session |-> S_B]
  /\ log[2] = EvAuth("auth_command", FALSE, S_B)

\* ------------------------------------------------------------------ a client that stops
\* The worker of Spec with a client that at some time closes the connection or sends
\* nothing more: from then on recv_line returns None. A read and a handshake in progress
\* return, and the handler runs on to its next read.

\* the client closes the connection, or falls silent
PeerStops ==
  /\ peer = "sending"
  /\ peer' \in {"silent", "closed"}
  /\ UNCHANGED <<now, store, tmp, procs, ret, HandlerVars, log, emitter, run, reqs, reply>>

\* "resp = io.recv_line(); if resp is None: return" after "AUTH PLAIN"
SmtpAuthPlainNoResponse ==
  /\ SmtpAuthPlainResponse
  /\ line' = None

\* a step of the worker while the client sends
ServedStep ==
  /\ peer = "sending"
  /\ Next

\* a step of the worker after the client has stopped: no read returns a line
UnservedStep ==
  /\ peer # "sending"
  /\ \/ Tick
     \/ SmtpConnect
     \/ ImapConnect
     \/ SmtpNoLine
     \/ ImapNoLine
     \/ SmtpAuthPlainNoResponse
     \/ SmtpHandshake
     \/ ImapHandshake

WorkerStep ==
  \/ ServedStep
  \/ UnservedStep

SilentNext ==
  \/ WorkerStep
  \/ PeerStops

SilentSpec == Init /\ [][SilentNext]_vars /\ WF_vars(WorkerStep)

\* C40: a worker whose client has closed the connection or fallen silent terminates,
\* given that every read of a line and every TLS handshake returns; until it terminates
\* the worker is at a read of a line or in a TLS handshake.
C40_Terminates ==
  /\ [](pc \in {"accept", "loop", "auth_plain", "handshake", "done"})
  /\ (peer # "sending") ~> (pc = "done")

\* the client fell silent after the upgrade to TLS, and the worker has ended on a read
\* that timed out
C40_Witness ==
  /\ peer = "silent"
  /\ pc = "done"
  /\ tls_active
  /\ line = None

====
